---- MODULE Spec2Model ----
(***************************************************************************)
(* A model of apollo-link-json-api: the JSON:API response transformer      *)
(* (src/src/jsonApiTransformer.ts) and the directive resolver of the link  *)
(* (src/src/jsonApiLink.ts).                                               *)
(*                                                                         *)
(* JSON values are tagged records.  An object is a function from its keys  *)
(* to values, so that object spread, rest destructuring and key lookup are *)
(* modelled by what they do to the keys.  Object.entries visits keys in    *)
(* insertion order; the model visits them in the order of KeyOrder, and    *)
(* the documents it draws cover both orders of every pair of linkages by   *)
(* swapping what the two relationship names point at.                      *)
(***************************************************************************)
EXTENDS Integers, Sequences, FiniteSets, TLC

VARIABLES
  doc,            \* the parsed response body handed to the transformer
  body,           \* the value travelling down the transformer's promise chain
  step,           \* the next .then() stage of jsonapiResponseTransformer
  includeJsonapi, \* the includeJsonapi argument of the transformer
  normalizer,     \* the typeNameNormalizer option the link was constructed with
  calls,          \* number of _denormalizeRelationships invocations so far
  diverged,       \* TRUE when the invocation budget MaxCalls was exhausted
  operation,      \* the GraphQL operation handed to JsonApiLink.request
  node,           \* per directive-tagged field: where its resolver call stands
  requests,       \* the calls made to fetch, in the order they were made
  responses,      \* requestContext.responses
  promise,        \* the promise returned by graphql(resolver, ...)
  observer,       \* the observer callbacks invoked so far, in order
  context,        \* the link-chain context of the operation (restResponses)
  subscription    \* the consumer's subscription to the observable of request()

tvars == <<doc, body, step, includeJsonapi, normalizer, calls, diverged>>

lvars == <<operation, node, requests, responses, promise, observer, context,
          subscription>>

vars == <<doc, body, step, includeJsonapi, normalizer, calls, diverged,
          operation, node, requests, responses, promise, observer, context,
          subscription>>

----------------------------------------------------------------------------
(* Bounds *)

\* longest to-many linkage array drawn for the primary resource
MaxMany == 2

\* budget of _denormalizeRelationships invocations for one document
MaxCalls == 24

----------------------------------------------------------------------------
(* JSON values *)

Null == [t |-> "null"]
Undef == [t |-> "undef"]
Throw == [t |-> "throw"]
Str(s) == [t |-> "str", s |-> s]
Bool(b) == [t |-> "bool", b |-> b]
Obj(f) == [t |-> "obj", f |-> f]
Arr(a) == [t |-> "arr", a |-> a]

EmptyObj == Obj(<<>>)

IsObj(v) == v.t = "obj"
IsArr(v) == v.t = "arr"

\* property read: a missing key, or a read on a non-object, gives undefined
Get(v, k) == IF v.t = "obj" /\ k \in DOMAIN v.f THEN v.f[k] ELSE Undef

Has(v, k) == v.t = "obj" /\ k \in DOMAIN v.f

\* JavaScript truthiness
Truthy(v) ==
  CASE v.t \in {"null", "undef", "throw"} -> FALSE
    [] v.t = "bool" -> v.b
    [] v.t = "str" -> v.s # ""
    [] OTHER -> TRUE

\* {...a, ...b} on key maps: the later spread wins
Spread(a, b) == b @@ a

\* the ...rest of a destructuring that names the keys in ks
Rest(f, ks) == [k \in (DOMAIN f) \ ks |-> f[k]]

\* the own enumerable keys an object spread copies ({...undefined} is {})
Own(v) == IF v.t = "obj" THEN v.f ELSE <<>>

Set1(f, k, v) == Spread(f, [x \in {k} |-> v])

\* order in which Object.entries yields the relationship names of the model
KeyOrder == <<"r1", "r2", "__typename">>

Entries(f) == SelectSeq(KeyOrder, LAMBDA k : k \in DOMAIN f)

----------------------------------------------------------------------------
(* jsonApiTransformer.ts *)

Marker == "__relationships_denormalizing"

RECURSIVE flattenResource(_)
\* flattenResource that keeps the resource's meta under `attributes`
flattenResourceMetaKept(res) ==
  IF res.t # "obj" THEN Throw
  ELSE
    LET attributes == Get(res, "attributes")
        relationships == Get(res, "relationships")
        restResource == Rest(res.f, {"attributes", "relationships", "links", "meta"})
        kept == IF Has(res, "meta") THEN [k \in {"attributes"} |-> Get(res, "meta")]
                ELSE <<>>
        flat(related) ==
          IF ~Truthy(related) THEN related
          ELSE IF IsArr(related) THEN Arr([i \in 1..Len(related.a) |-> flattenResource(related.a[i])])
          ELSE flattenResource(related)
    IN IF ~Truthy(relationships)
         THEN Obj(Spread(Spread(restResource, Own(attributes)), kept))
         ELSE Obj(Spread(Spread(Spread(restResource, Own(attributes)), kept),
                         [k \in DOMAIN Own(relationships) |-> flat(relationships.f[k])]))

\* flattenResource without the attribute spread
flattenResourceNoAttrs(res) ==
  IF res.t # "obj" THEN Throw
  ELSE
    LET relationships == Get(res, "relationships")
        restResource == Rest(res.f, {"attributes", "relationships", "links"})
        flat(related) ==
          IF ~Truthy(related) THEN related
          ELSE IF IsArr(related) THEN Arr([i \in 1..Len(related.a) |-> flattenResource(related.a[i])])
          ELSE flattenResource(related)
    IN IF ~Truthy(relationships) THEN Obj(restResource)
       ELSE Obj(Spread(restResource,
                       [k \in DOMAIN Own(relationships) |-> flat(relationships.f[k])]))

flattenResource(res) ==
  IF res.t # "obj" THEN Throw  \* destructuring null or undefined is a TypeError
  ELSE
    LET attributes == Get(res, "attributes")
        relationships == Get(res, "relationships")
        restResource == Rest(res.f, {"attributes", "relationships", "links"})
        flat(related) ==
          IF ~Truthy(related) THEN related
          ELSE IF IsArr(related) THEN Arr([i \in 1..Len(related.a) |-> flattenResource(related.a[i])])
          ELSE flattenResource(related)
    IN IF ~Truthy(relationships)
         THEN Obj(Spread(restResource, Own(attributes)))
         ELSE Obj(Spread(Spread(restResource, Own(attributes)),
                         [k \in DOMAIN Own(relationships) |-> flat(relationships.f[k])]))

Min(S) == CHOOSE x \in S : \A y \in S : x <= y

\* findResource matching on the id alone
findResourceIdOnly(item, resources) ==
  LET hits == {i \in 1..Len(resources) : Get(resources[i], "id") = Get(item, "id")}
  IN IF hits = {} THEN 0 ELSE Min(hits)

\* index of the first resource with the identifier's id and type, 0 for none
findResource(item, resources) ==
  LET hits == {i \in 1..Len(resources) :
                 /\ Get(resources[i], "id") = Get(item, "id")
                 /\ Get(resources[i], "type") = Get(item, "type")}
  IN IF hits = {} THEN 0 ELSE Min(hits)

(* _denormalizeRelationships mutates the resources it expands, so it is     *)
(* modelled on a heap: h.res is allResources, each element the current      *)
(* value of that object; h.calls counts invocations; h.full tells the       *)
(* _denormalizeJsonapiRelationships variant, which differs only in keeping  *)
(* the relationship envelope.  A result is [v |-> value returned,           *)
(* h |-> heap afterwards].                                                  *)
RECURSIVE denormalizeAt(_, _), denormalizeRels(_, _, _, _), denormalizeItems(_, _, _)

\* the value of a binding computed once: Only({body : x \in {e}}) is body
\* with x bound to the value of e
Only(S) == CHOOSE x \in S : TRUE

\* the callback item => _denormalizeRelationships(findResource(item) || item)
denormalizeItem(item, h) ==
  LET i == findResource(item, h.res)
  IN IF i = 0
       THEN \* an identifier that resolves to nothing has no relationships:
            \* the guard of _denormalizeRelationships returns it as it is
            [v |-> item, h |-> [h EXCEPT !.calls = @ + 1]]
       ELSE denormalizeAt(i, h)

\* data.map(obj => fn(obj, rest)) over the first n items, left to right
denormalizeItems(items, n, h) ==
  IF n = 0 THEN [v |-> <<>>, h |-> h]
  ELSE Only({ Only({ [v |-> Append(before.v, this.v), h |-> this.h] :
                     this \in {denormalizeItem(items[n], before.h)} }) :
              before \in {denormalizeItems(items, n - 1, h)} })

\* the entry [relationshipName, ...] the mapObject callback returns for one
\* relationship, given the entries and the heap before it
denormalizeRel(name, related, before) ==
  LET data == Get(related, "data")
      \* applyToData(fn)(related), then .data unless the namespaced variant
      keep(d) == IF before.h.full THEN Obj(Set1(related.f, "data", d)) ELSE d
  IN IF ~Truthy(data)
       THEN [v |-> Set1(before.v, name, IF before.h.full THEN related ELSE Null),
             h |-> before.h]
     ELSE IF IsArr(data)
       THEN Only({ [v |-> Set1(before.v, name, keep(Arr(r.v))), h |-> r.h] :
                   r \in {denormalizeItems(data.a, Len(data.a), before.h)} })
     ELSE Only({ [v |-> Set1(before.v, name, keep(r.v)), h |-> r.h] :
                 r \in {denormalizeItem(data, before.h)} })

\* mapObject over the first n relationship names of the resource
denormalizeRels(rels, names, n, h) ==
  IF n = 0 THEN [v |-> <<>>, h |-> h]
  ELSE Only({ denormalizeRel(names[n], rels[names[n]], before) :
              before \in {denormalizeRels(rels, names, n - 1, h)} })

\* _denormalizeRelationships without the check of the expansion marker
denormalizeAtNoGuard(i, h) ==
  LET data == h.res[i] IN
  IF h.calls >= MaxCalls THEN [v |-> data, h |-> [h EXCEPT !.diverged = TRUE]]
  ELSE IF ~Truthy(Get(data, "relationships"))
    THEN [v |-> data, h |-> [h EXCEPT !.calls = @ + 1]]
  ELSE
    LET marked == Obj(Set1(data.f, Marker, Bool(TRUE)))
        h1 == [h EXCEPT !.res[i] = marked, !.calls = @ + 1]
        rels == Get(data, "relationships").f
    IN Only({ [v |-> Obj(Set1(r.h.res[i].f, "relationships", Obj(r.v))), h |-> r.h] :
              r \in {denormalizeRels(rels, Entries(rels), Len(Entries(rels)), h1)} })

\* _denormalizeRelationships(data, allResources), data being h.res[i]
denormalizeAt(i, h) ==
  LET data == h.res[i] IN
  IF h.calls >= MaxCalls THEN [v |-> data, h |-> [h EXCEPT !.diverged = TRUE]]
  ELSE IF ~Truthy(Get(data, "relationships")) \/ Truthy(Get(data, Marker))
    THEN [v |-> data, h |-> [h EXCEPT !.calls = @ + 1]]
  ELSE
    LET marked == Obj(Set1(data.f, Marker, Bool(TRUE)))
        h1 == [h EXCEPT !.res[i] = marked, !.calls = @ + 1]
        rels == Get(data, "relationships").f
    IN Only({ [v |-> Obj(Set1(r.h.res[i].f, "relationships", Obj(r.v))), h |-> r.h] :
              r \in {denormalizeRels(rels, Entries(rels), Len(Entries(rels)), h1)} })

\* what a denormalize entry point hands back: the value, the included
\* objects as the pass left them, and the invocation count
Denormalized(r) ==
  [v |-> r.v, included |-> Tail(r.h.res),
   calls |-> r.h.calls, diverged |-> r.h.diverged]

\* denormalizeRelationships(data, {included = []}) with the included objects
\* in their current state
denormalizeRelationships(data, included, c, d) ==
  IF ~Truthy(data)
    THEN [v |-> data, included |-> included, calls |-> c + 1, diverged |-> d]
  ELSE Only({ Denormalized(r) :
              r \in {denormalizeAt(1, [res |-> <<data>> \o included, calls |-> c,
                                       diverged |-> d, full |-> FALSE])} })

\* denormalizeJsonapiRelationships(data, {included = []})
denormalizeJsonapiRelationships(data, included, c, d) ==
  IF ~Truthy(data)
    THEN [v |-> data, included |-> included, calls |-> c + 1, diverged |-> d]
  ELSE Only({ Denormalized(r) :
              r \in {denormalizeAt(1, [res |-> <<data>> \o included, calls |-> c,
                                       diverged |-> d, full |-> TRUE])} })

\* the typeNameNormalizer options the model constructs the link with: none,
\* which is the identity, and type => `My${type}`
TypeNameNormalizers == {"identity", "prefix"}

\* the link's typeNameNormalizer option; the default is the identity
typeNameNormalizer(name) == IF normalizer = "prefix" THEN "My" \o name ELSE name

\* applyNormalizer(normalizer)(resource): {__typename, ...resource}
applyNormalizer(resource) ==
  IF resource.t \in {"null", "undef"} THEN Throw  \* resource.type of undefined
  ELSE LET type == Get(resource, "type")
           tag == IF type.t = "str" THEN Str(typeNameNormalizer(type.s)) ELSE type
       IN Obj(Spread([k \in {"__typename"} |-> tag], Own(resource)))

AnyThrow(s) == \E i \in 1..Len(s) : s[i] = Throw

RECURSIVE resourceTypenameNamespacer(_)

\* fn(obj) for the pure callbacks handed to applyToData and applyToIncluded
CallOn(fn, obj) ==
  CASE fn = "applyNormalizer" -> applyNormalizer(obj)
    [] fn = "flattenResource" -> flattenResource(obj)
    [] fn = "resourceTypenameNamespacer" -> resourceTypenameNamespacer(obj)

\* applyToIncluded(fn)(body)
applyToIncluded(fn, b) ==
  LET included == Get(b, "included")
      rest == Rest(b.f, {"included"})
  IN IF ~Truthy(included) THEN Obj(rest)
     ELSE LET mapped == [i \in 1..Len(included.a) |-> CallOn(fn, included.a[i])]
          IN IF AnyThrow(mapped) THEN Throw
             ELSE Obj(Set1(rest, "included", Arr(mapped)))

\* applyToData(fn)(body) with the elements of an array visited back to front
applyToDataReversed(fn, b) ==
  LET data == Get(b, "data")
      rest == Rest(b.f, {"data"})
  IN IF IsArr(data)
       THEN LET n == Len(data.a)
                mapped == [i \in 1..n |-> CallOn(fn, data.a[n + 1 - i])]
            IN IF AnyThrow(mapped) THEN Throw
               ELSE Obj(Set1(rest, "data", Arr(mapped)))
       ELSE LET one == CallOn(fn, data)
            IN IF one = Throw THEN Throw ELSE Obj(Set1(rest, "data", one))

\* applyToData(fn)(body)
applyToData(fn, b) ==
  LET data == Get(b, "data")
      rest == Rest(b.f, {"data"})
  IN IF IsArr(data)
       THEN LET mapped == [i \in 1..Len(data.a) |-> CallOn(fn, data.a[i])]
            IN IF AnyThrow(mapped) THEN Throw
               ELSE Obj(Set1(rest, "data", Arr(mapped)))
       ELSE LET one == CallOn(fn, data)
            IN IF one = Throw THEN Throw ELSE Obj(Set1(rest, "data", one))

\* resourceTypenameNamespacer of typenameNamespacer(prefix, normalizer)
resourceTypenameNamespacer(res) ==
  IF res.t # "obj" THEN Throw
  ELSE
    LET attributes == Get(res, "attributes")
        relationships == Get(res, "relationships")
        meta == Get(res, "meta")
        links == Get(res, "links")
        resource == Rest(res.f, {"attributes", "relationships", "meta", "links"})
        type == Get(res, "type")
        typename == typeNameNormalizer("jsonapiFullResponse_"
                      \o (IF type.t = "str" THEN type.s ELSE "undefined"))
        tagged(v, suffix) ==
          IF ~Truthy(v) THEN v
          ELSE Obj(Set1(Own(v), "__typename",
                        Str(typeNameNormalizer(typename \o suffix))))
        related(r) ==
          IF ~Truthy(r) \/ ~Truthy(Get(r, "data")) THEN r
          ELSE applyToData("resourceTypenameNamespacer", r)
        rels == IF ~Truthy(relationships) THEN relationships
                ELSE Obj(Set1([k \in DOMAIN Own(relationships) |->
                                 related(relationships.f[k])],
                              "__typename",
                              Str(typeNameNormalizer(typename \o "_relationships"))))
    IN Obj(Spread(Set1(resource, "__typename", Str(typename)),
                  [attributes |-> tagged(attributes, "_attributes"),
                   relationships |-> rels,
                   meta |-> tagged(meta, "_meta"),
                   links |-> tagged(links, "_links")]))

\* typeFor(data)
typeFor(data) ==
  IF IsArr(data)
    THEN (IF Len(data.a) = 0 THEN Undef
          ELSE IF Truthy(data.a[1]) THEN Get(data.a[1], "type") ELSE data.a[1])
  ELSE IF data.t \in {"null", "undef"} THEN Throw
  ELSE Get(data, "type")

\* bodyTypenameNamespacer of typenameNamespacer('jsonapiFullResponse_', normalizer)
bodyTypenameNamespacer(b) ==
  LET data == Get(b, "data")
      t0 == typeFor(data)
      type == IF Truthy(t0) /\ t0.t = "str" THEN t0.s ELSE "unknown"
      tagged(v, suffix) ==
        IF ~Truthy(v) THEN v
        ELSE Obj(Set1(Own(v), "__typename",
                      Str(typeNameNormalizer("jsonapiFullResponse_" \o type \o suffix))))
      included == Get(b, "included")
  IN IF t0 = Throw THEN Throw
     ELSE Obj([data |-> IF ~Truthy(data) THEN data
                        ELSE IF IsArr(data)
                          THEN Arr([i \in 1..Len(data.a) |-> resourceTypenameNamespacer(data.a[i])])
                          ELSE resourceTypenameNamespacer(data),
               meta |-> tagged(Get(b, "meta"), "_body_meta"),
               links |-> tagged(Get(b, "links"), "_body_links"),
               included |-> IF Truthy(included)
                              THEN Arr([i \in 1..Len(included.a) |-> resourceTypenameNamespacer(included.a[i])])
                              ELSE included,
               __typename |-> Str(typeNameNormalizer(
                                "jsonapiFullResponse_" \o type \o "_body"))])

\* as preserveBody, for a snapshot that replaces the body it is taken of
preserveBodyInPlace(b) ==
  LET full == bodyTypenameNamespacer(b)
  IN IF full = Throw THEN Throw
     ELSE Obj(Set1(full.f, "jsonapiFullResponse", full))

\* preserveBody(normalizer)(body)
preserveBody(b) ==
  LET full == bodyTypenameNamespacer(b)
  IN IF full = Throw THEN Throw
     ELSE Obj(Set1(b.f, "jsonapiFullResponse", full))

\* the included list a denormalize callback receives: {included = []}
IncludedOf(b) ==
  LET included == Get(b, "included")
  IN IF IsArr(included) THEN included.a ELSE <<>>

(* applyToData(denormalizeRelationships)(body), or with full the namespaced *)
(* variant: the elements of a primary array are denormalized left to right  *)
(* against the same included objects, whose markers persist.                *)
RECURSIVE denormalizeDataItems(_, _, _, _, _, _)
denormalizeDataItems(items, n, included, c, d, full) ==
  IF n = 0 THEN [v |-> <<>>, included |-> included, calls |-> c, diverged |-> d]
  ELSE Only({ Only({ [this EXCEPT !.v = Append(before.v, this.v)] :
                     this \in {IF full
                                 THEN denormalizeJsonapiRelationships(
                                        items[n], before.included, before.calls,
                                        before.diverged)
                                 ELSE denormalizeRelationships(
                                        items[n], before.included, before.calls,
                                        before.diverged)} }) :
              before \in {denormalizeDataItems(items, n - 1, included, c, d, full)} })

applyToDataDenormalize(b, c, d, full) ==
  LET data == Get(b, "data")
      rest == Rest(b.f, {"data"})
      \* the resources of body.included are the objects the pass has marked
      rest1(r) == IF IsArr(Get(b, "included"))
                    THEN Set1(rest, "included", Arr(r.included)) ELSE rest
      out(r, v) == [v |-> Obj(Set1(rest1(r), "data", v)),
                    calls |-> r.calls, diverged |-> r.diverged]
  IN IF IsArr(data)
       THEN Only({ out(r, Arr(r.v)) :
                   r \in {denormalizeDataItems(data.a, Len(data.a), IncludedOf(b),
                                               c, d, full)} })
       ELSE Only({ out(r, r.v) :
                   r \in {IF full
                            THEN denormalizeJsonapiRelationships(data, IncludedOf(b), c, d)
                            ELSE denormalizeRelationships(data, IncludedOf(b), c, d)} })

(* applyToIncluded(denormalizeJsonapiRelationships)(full): the callback gets *)
(* the body without its included key, so allResources is the resource       *)
(* alone.                                                                   *)
RECURSIVE denormalizeIncludedItems(_, _, _, _)
denormalizeIncludedItems(items, n, c, d) ==
  IF n = 0 THEN [v |-> <<>>, calls |-> c, diverged |-> d]
  ELSE Only({ Only({ [v |-> Append(before.v, this.v),
                      calls |-> this.calls, diverged |-> this.diverged] :
                     this \in {denormalizeJsonapiRelationships(
                                 items[n], <<>>, before.calls, before.diverged)} }) :
              before \in {denormalizeIncludedItems(items, n - 1, c, d)} })

applyToIncludedDenormalize(b, c, d) ==
  LET included == Get(b, "included")
      rest == Rest(b.f, {"included"})
  IN IF ~Truthy(included) THEN [v |-> Obj(rest), calls |-> c, diverged |-> d]
     ELSE Only({ [v |-> Obj(Set1(rest, "included", Arr(r.v))),
                  calls |-> r.calls, diverged |-> r.diverged] :
                 r \in {denormalizeIncludedItems(included.a, Len(included.a), c, d)} })

----------------------------------------------------------------------------
(* The compound documents the transformer is run on *)

\* three resource identities; two of them share an id and differ in type
IdentP == Obj([id |-> Str("1"), type |-> Str("posts")])
IdentA == Obj([id |-> Str("2"), type |-> Str("authors")])
IdentB == Obj([id |-> Str("2"), type |-> Str("comments")])
Idents == {IdentP, IdentA, IdentB}

NoData == EmptyObj
NullData == Obj([data |-> Null, links |-> Obj([self |-> Str("/rel")])])
One(x) == Obj([data |-> x])
Many(xs) == Obj([data |-> Arr(xs), links |-> Obj([self |-> Str("/rel")])])

ManyLinks(n) == {Many(xs) : xs \in UNION {[1..k -> Idents] : k \in 0..n}}

\* relationship envelopes of the primary resource's first relationship
FullLinks == {NoData, NullData} \cup {One(x) : x \in Idents} \cup ManyLinks(MaxMany)

\* relationships objects of the primary resource, Undef for none
PrimaryRels ==
  {Undef}
    \cup {Obj([r1 |-> l]) : l \in FullLinks}
    \cup {Obj([r1 |-> l, r2 |-> m]) :
            l \in FullLinks,
            m \in {One(IdentA), One(IdentB), Many(<<IdentA, IdentB>>)}}

IncludedARels ==
  {Undef, EmptyObj}
    \cup {Obj([r1 |-> l]) :
            l \in {NoData, One(IdentP), One(IdentA), One(IdentB), Many(<<>>),
                   Many(<<IdentB>>), Many(<<IdentP, IdentB>>),
                   Many(<<IdentB, IdentB>>)}}

IncludedBRels ==
  {Undef, Obj([r1 |-> One(IdentP)]), Obj([r1 |-> One(IdentA)]),
   Obj([r1 |-> One(IdentB)]), Obj([r2 |-> Many(<<IdentA>>)])}

WithRels(f, rels) == IF rels = Undef THEN Obj(f) ELSE Obj(Set1(f, "relationships", rels))

ResourceP(rels) ==
  WithRels([id |-> Str("1"), type |-> Str("posts"),
            attributes |-> Obj([title |-> Str("A")])], rels)

ResourceA(rels) ==
  WithRels([id |-> Str("2"), type |-> Str("authors"),
            attributes |-> Obj([name |-> Str("B")]),
            links |-> Obj([self |-> Str("/authors/2")]),
            meta |-> Obj([rank |-> Str("1")])], rels)

ResourceB(rels) ==
  WithRels([id |-> Str("2"), type |-> Str("comments")], rels)

\* documents whose primary data is an array
ArrayDocs ==
  {Obj([data |-> Arr(<<>>)])}
    \cup {Obj([data |-> Arr(<<ResourceP(p), ResourceA(a)>>),
                included |-> Arr(<<ResourceB(b)>>)]) :
            p \in {Undef, Obj([r1 |-> One(IdentA)]),
                   Obj([r1 |-> Many(<<IdentB, IdentA>>)])},
            a \in {Undef, Obj([r1 |-> One(IdentP)]), Obj([r1 |-> One(IdentB)])},
            b \in {Undef, Obj([r1 |-> One(IdentA)])}}

\* a resource without relationships
ResourceN(attributes) ==
  Obj([id |-> Str("3"), type |-> Str("notes"), attributes |-> attributes,
       links |-> Obj([self |-> Str("/notes/3")])])

\* attributes named like the members of a resource
EnvelopeNamedAttributes ==
  {Obj([links |-> Str("L")]),
   Obj([attributes |-> Obj([title |-> Str("A")])]),
   Obj([relationships |-> Obj([r1 |-> Str("R")])]),
   Obj([title |-> Str("A"), meta |-> Str("M")])}

NoteDocs == {Obj([data |-> ResourceN(a)]) : a \in EnvelopeNamedAttributes}

Docs ==
  NoteDocs \cup
  {Obj([data |-> ResourceP(p)]) : p \in PrimaryRels}
    \cup {Obj([data |-> ResourceP(p), included |-> Arr(<<ResourceA(a)>>)]) :
            p \in PrimaryRels, a \in IncludedARels}
    \cup {Obj([data |-> ResourceP(p),
               included |-> Arr(<<ResourceA(a), ResourceB(b)>>)]) :
            p \in PrimaryRels, a \in IncludedARels, b \in IncludedBRels}
    \cup {Obj([meta |-> Obj([total |-> Str("0")])]),
          Obj([data |-> Null, included |-> Arr(<<ResourceA(Undef)>>)])}
    \cup ArrayDocs

----------------------------------------------------------------------------
(* jsonapiResponseTransformer: one action per .then() stage *)

Stage(from, to, b) ==
  /\ step = from
  /\ body # Throw
  /\ body' = b
  /\ step' = to

\* .then(applyToIncluded(applyNormalizer(typeNameNormalizer)))
NormalizeIncluded ==
  /\ Stage("normalizeIncluded", "normalizeData", applyToIncluded("applyNormalizer", body))
  /\ UNCHANGED <<lvars, normalizer, doc, includeJsonapi, calls, diverged>>

\* .then(applyToData(applyNormalizer(typeNameNormalizer)))
NormalizeData ==
  /\ Stage("normalizeData", "preserve", applyToData("applyNormalizer", body))
  /\ UNCHANGED <<lvars, normalizer, doc, includeJsonapi, calls, diverged>>

\* .then(includeJsonapi ? preserveBody(typeNameNormalizer) : identity)
PreserveBody ==
  /\ Stage("preserve", "denormalize",
           IF includeJsonapi THEN preserveBody(body) ELSE body)
  /\ UNCHANGED <<lvars, normalizer, doc, includeJsonapi, calls, diverged>>

\* .then(applyToData(denormalizeRelationships))
DenormalizeData ==
  /\ step = "denormalize"
  /\ \E r \in {applyToDataDenormalize(body, calls, diverged, FALSE)} :
       /\ Stage("denormalize", "flatten", r.v)
       /\ calls' = r.calls
       /\ diverged' = r.diverged
  /\ UNCHANGED <<lvars, normalizer, doc, includeJsonapi>>

\* .then(applyToData(flattenResource))
FlattenData ==
  /\ Stage("flatten", "fullIncluded", applyToData("flattenResource", body))
  /\ UNCHANGED <<lvars, normalizer, doc, includeJsonapi, calls, diverged>>

\* .then(applyToJsonapiFullResponse(applyToIncluded(denormalizeJsonapiRelationships)))
DenormalizeFullIncluded ==
  LET full == Get(body, "jsonapiFullResponse")
      rest == Rest(body.f, {"jsonapiFullResponse"})
  IN /\ step = "fullIncluded"
     /\ IF Truthy(full)
          THEN \E r \in {applyToIncludedDenormalize(full, calls, diverged)} :
                 /\ Stage("fullIncluded", "fullData",
                          Obj(Set1(rest, "jsonapiFullResponse", r.v)))
                 /\ calls' = r.calls
                 /\ diverged' = r.diverged
          ELSE /\ Stage("fullIncluded", "fullData", Obj(rest))
               /\ UNCHANGED <<calls, diverged>>
     /\ UNCHANGED <<lvars, normalizer, doc, includeJsonapi>>

\* .then(applyToJsonapiFullResponse(applyToData(denormalizeJsonapiRelationships)))
DenormalizeFullData ==
  LET full == Get(body, "jsonapiFullResponse")
      rest == Rest(body.f, {"jsonapiFullResponse"})
  IN /\ step = "fullData"
     /\ IF Truthy(full)
          THEN \E r \in {applyToDataDenormalize(full, calls, diverged, TRUE)} :
                 /\ Stage("fullData", "project",
                          Obj(Set1(rest, "jsonapiFullResponse", r.v)))
                 /\ calls' = r.calls
                 /\ diverged' = r.diverged
          ELSE /\ Stage("fullData", "project", Obj(rest))
               /\ UNCHANGED <<calls, diverged>>
     /\ UNCHANGED <<lvars, normalizer, doc, includeJsonapi>>

\* .then(({data, jsonapiFullResponse}) => includeJsonapi ? {graphql, jsonapi} : data)
Project ==
  /\ Stage("project", "done",
           IF includeJsonapi
             THEN Obj([graphql |-> Get(body, "data"),
                       jsonapi |-> Get(body, "jsonapiFullResponse")])
             ELSE Get(body, "data"))
  /\ UNCHANGED <<lvars, normalizer, doc, includeJsonapi, calls, diverged>>

\* a stage threw: the remaining stages are skipped and the promise rejects
Reject ==
  /\ body = Throw
  /\ step \notin {"done", "rejected"}
  /\ step' = "rejected"
  /\ UNCHANGED <<lvars, normalizer, doc, body, includeJsonapi, calls, diverged>>

InitTransform ==
  /\ doc \in Docs
  /\ body = doc
  /\ step = "normalizeIncluded"
  /\ includeJsonapi \in BOOLEAN
  /\ normalizer \in TypeNameNormalizers
  /\ calls = 0
  /\ diverged = FALSE
  /\ operation = Null
  /\ node = <<>>
  /\ requests = <<>>
  /\ responses = <<>>
  /\ promise = Null
  /\ observer = <<>>
  /\ context = Null
  /\ subscription = Null

NextTransform ==
  \/ NormalizeIncluded
  \/ NormalizeData
  \/ PreserveBody
  \/ DenormalizeData
  \/ FlattenData
  \/ DenormalizeFullIncluded
  \/ DenormalizeFullData
  \/ Project
  \/ Reject

SpecTransform == InitTransform /\ [][NextTransform]_vars

----------------------------------------------------------------------------
(* Properties of the transformer *)

\* what the transformer resolved to: the flattened primary data
Flattened == IF includeJsonapi THEN Get(body, "graphql") ELSE body

\* the identifiers a relationship envelope links to, in order
Linkage(related) ==
  LET data == Get(related, "data")
  IN IF ~Truthy(data) THEN <<>> ELSE IF IsArr(data) THEN data.a ELSE <<data>>

RelsOf(res) == Own(Get(res, "relationships"))

\* every identifier in the relationships of res is found among resources
LinksResolve(res, resources) ==
  \A k \in DOMAIN RelsOf(res) :
    \A i \in 1..Len(Linkage(RelsOf(res)[k])) :
      findResource(Linkage(RelsOf(res)[k])[i], resources) # 0

\* v carries the id and type of res and each attribute of res at its top level
LiftedFrom(v, res) ==
  /\ IsObj(v)
  /\ Get(v, "id") = Get(res, "id")
  /\ Get(v, "type") = Get(res, "type")
  /\ \A a \in DOMAIN Own(Get(res, "attributes")) :
       Get(v, a) = Get(res, "attributes").f[a]

C1Case ==
  /\ IsObj(Get(doc, "data"))
  /\ Truthy(Get(Get(doc, "data"), "attributes"))
  /\ Truthy(Get(Get(doc, "data"), "relationships"))
  /\ LinksResolve(Get(doc, "data"), IncludedOf(doc))

\* C1: for a primary resource with attributes and relationships whose
\* identifiers all resolve in included, the result carries the primary's id and
\* type, its attributes at the top level, and under each relationship name the
\* flattened related resource: one object for a to-one linkage, an array of the
\* same length and order for a to-many linkage.
C1_FlattenedShape ==
  (step = "done" /\ C1Case) =>
    LET primary == Get(doc, "data")
        target(x) == IncludedOf(doc)[findResource(x, IncludedOf(doc))]
    IN /\ LiftedFrom(Flattened, primary)
       /\ \A k \in DOMAIN RelsOf(primary) :
            LET data == Get(RelsOf(primary)[k], "data")
                got == Get(Flattened, k)
            IN IF ~Truthy(data) THEN TRUE
               ELSE IF IsArr(data)
                 THEN /\ IsArr(got)
                      /\ Len(got.a) = Len(data.a)
                      /\ \A i \in 1..Len(data.a) :
                           LiftedFrom(got.a[i], target(data.a[i]))
                 ELSE LiftedFrom(got, target(data))

C1_Witness ==
  /\ step = "done"
  /\ C1Case
  /\ RelsOf(Get(doc, "data")) =
       [r1 |-> Many(<<IdentA, IdentB>>), r2 |-> One(IdentA)]

\* a relationship value that still is an envelope around raw identifiers
HoldsRawIdentifier(val) ==
  IsObj(val) /\ ~Has(val, "id") /\ Truthy(Get(val, "data"))

RECURSIVE FullyDenormalized(_)
FullyDenormalized(v) ==
  \A k \in DOMAIN RelsOf(v) \ {"__typename"} :
    LET val == RelsOf(v)[k]
    IN /\ ~HoldsRawIdentifier(val)
       /\ IsArr(val) => \A i \in 1..Len(val.a) : FullyDenormalized(val.a[i])
       /\ (IsObj(val) /\ Has(val, "id")) => FullyDenormalized(val)

\* every identifier of every resource of the document resolves
FullyCovered(d) ==
  LET all == <<Get(d, "data")>> \o IncludedOf(d)
  IN /\ IsObj(Get(d, "data"))
     /\ \A i \in 1..Len(all) : LinksResolve(all[i], all)

\* C2: when included (or the primary itself) covers every identifier of the
\* document, the denormalized primary data holds no raw identifier in any
\* relationship at any depth.
C2_NoRawIdentifiers ==
  (step = "flatten" /\ FullyCovered(doc)) => FullyDenormalized(Get(body, "data"))

RECURSIVE SumLinks(_, _)
SumLinks(resources, n) ==
  IF n = 0 THEN 0
  ELSE LET rels == RelsOf(resources[n])
           names == Entries(rels)
           count[i \in 0..Len(names)] ==
             IF i = 0 THEN 0 ELSE count[i - 1] + Len(Linkage(rels[names[i]]))
       IN SumLinks(resources, n - 1) + count[Len(names)]

\* number of identifiers in the relationships of the document's resources
LinkCount(d) ==
  LET data == Get(d, "data")
      primary == IF IsArr(data) THEN data.a ELSE IF IsObj(data) THEN <<data>> ELSE <<>>
  IN SumLinks(primary \o IncludedOf(d), Len(primary) + Len(IncludedOf(d)))

\* C3: denormalization followed by flattening terminates for every document,
\* also when a resource relates back to itself directly or through others:
\* every pass makes at most one invocation per resource entered and one per
\* identifier of the document, and the invocation budget is never exhausted.
C3_Terminates ==
  /\ ~diverged
  /\ calls <= 3 * (1 + Len(IncludedOf(doc)) + LinkCount(doc))

C3_Witness ==
  /\ step = "done"
  /\ ~diverged
  /\ RelsOf(Get(doc, "data")) = [r1 |-> One(IdentA), r2 |-> Many(<<IdentA, IdentB>>)]
  /\ Len(IncludedOf(doc)) = 2
  /\ RelsOf(IncludedOf(doc)[1]) = [r1 |-> Many(<<IdentP, IdentB>>)]
  /\ RelsOf(IncludedOf(doc)[2]) = [r1 |-> One(IdentB)]

----------------------------------------------------------------------------
(* jsonapiResponseTransformer as one function of the parsed body: the      *)
(* stages of the promise chain applied in order, a throwing stage skipping *)
(* the ones after it.                                                      *)

StageNames ==
  <<"normalizeIncluded", "normalizeData", "preserve", "denormalize", "flatten",
    "fullIncluded", "fullData", "project">>

StageApply(s, st, inc) ==
  LET b == st.v
      keep(v) == [v |-> v, calls |-> st.calls, diverged |-> st.diverged]
      full == Get(b, "jsonapiFullResponse")
      rest == Rest(b.f, {"jsonapiFullResponse"})
      withFull(r) == [v |-> Obj(Set1(rest, "jsonapiFullResponse", r.v)),
                      calls |-> r.calls, diverged |-> r.diverged]
  IN CASE s = "normalizeIncluded" -> keep(applyToIncluded("applyNormalizer", b))
       [] s = "normalizeData" -> keep(applyToData("applyNormalizer", b))
       [] s = "preserve" -> keep(IF inc THEN preserveBody(b) ELSE b)
       [] s = "denormalize" -> applyToDataDenormalize(b, st.calls, st.diverged, FALSE)
       [] s = "flatten" -> keep(applyToData("flattenResource", b))
       [] s = "fullIncluded" ->
            IF Truthy(full)
              THEN Only({ withFull(r) :
                          r \in {applyToIncludedDenormalize(full, st.calls, st.diverged)} })
              ELSE keep(Obj(rest))
       [] s = "fullData" ->
            IF Truthy(full)
              THEN Only({ withFull(r) :
                          r \in {applyToDataDenormalize(full, st.calls, st.diverged, TRUE)} })
              ELSE keep(Obj(rest))
       [] s = "project" ->
            keep(IF inc THEN Obj([graphql |-> Get(b, "data"),
                                  jsonapi |-> Get(b, "jsonapiFullResponse")])
                        ELSE Get(b, "data"))

RECURSIVE RunStages(_, _, _)
RunStages(n, d, inc) ==
  IF n = 0 THEN [v |-> d, calls |-> 0, diverged |-> FALSE]
  ELSE Only({ IF st.v = Throw THEN st ELSE StageApply(StageNames[n], st, inc) :
              st \in {RunStages(n - 1, d, inc)} })

\* the value the promise of jsonapiResponseTransformer settles with
jsonapiResponseTransformer(d, inc) == RunStages(Len(StageNames), d, inc).v

----------------------------------------------------------------------------
(* jsonApiLink.ts: the query document *)

\* a selection set node; NoSelectionSet is the missing selectionSet of a leaf
SelectionSet(selections) == [set |-> TRUE, selections |-> selections]
NoSelectionSet == [set |-> FALSE, selections |-> <<>>]

\* the directives of a field as info.directives presents them
NoDirectives == [jsonapi |-> Undef, type |-> Undef, export |-> Undef]

\* argumentsObjectFromField: a field written without arguments has args null
NoArgs == Null

Field(name, alias, directives, args, selectionSet) ==
  [kind |-> "Field", name |-> name, alias |-> alias, directives |-> directives,
   args |-> args, selectionSet |-> selectionSet]

Leaf(name) == Field(name, "", NoDirectives, NoArgs, NoSelectionSet)

InlineFragment(selectionSet) == [kind |-> "InlineFragment", selectionSet |-> selectionSet]

FragmentSpread(name) == [kind |-> "FragmentSpread", name |-> name]

\* resultKeyNameFromField: the alias when there is one
resultKeyNameFromField(field) == IF field.alias # "" THEN field.alias ELSE field.name

quickFindJsonApiDirective(field) == field.directives.jsonapi # Undef

----------------------------------------------------------------------------
(* The null-patch pass.  The code patches `current` in place; the result   *)
(* values are trees, so the model rebuilds the patched value instead.      *)

RECURSIVE insertNullsForAnyOmittedFields(_, _, _)
RECURSIVE insertNullsSelections(_, _, _, _)

\* as insertNullsSelections, for a pass that puts an empty object where a
\* field with selections is missing
RECURSIVE insertNullsSelectionsEmptyObject(_, _, _, _)
insertNullsSelectionsEmptyObject(current, fragmentMap, selections, n) ==
  IF n = 0 THEN current
  ELSE Only({
    LET nd == selections[n]
    IN CASE nd.kind = "InlineFragment" ->
              insertNullsForAnyOmittedFields(cur, fragmentMap, nd.selectionSet)
         [] nd.kind = "FragmentSpread" ->
              insertNullsForAnyOmittedFields(cur, fragmentMap, fragmentMap[nd.name])
         [] OTHER ->
              LET value == Get(cur, nd.name)
              IN IF nd.name = "__typename" THEN cur
                 ELSE IF value = Undef
                   THEN Obj(Set1(cur.f, nd.name,
                                 IF nd.selectionSet.set THEN EmptyObj ELSE Null))
                 ELSE IF value.t \in {"obj", "arr"} /\ nd.selectionSet.set
                   THEN Obj(Set1(cur.f, nd.name,
                                 insertNullsForAnyOmittedFields(value, fragmentMap,
                                                                nd.selectionSet)))
                 ELSE cur
    : cur \in {insertNullsSelectionsEmptyObject(current, fragmentMap, selections, n - 1)} })

\* currentSelectionSet.selections.forEach(...) on the object current
insertNullsSelections(current, fragmentMap, selections, n) ==
  IF n = 0 THEN current
  ELSE Only({
    LET nd == selections[n]
    IN CASE nd.kind = "InlineFragment" ->
              insertNullsForAnyOmittedFields(cur, fragmentMap, nd.selectionSet)
         [] nd.kind = "FragmentSpread" ->
              insertNullsForAnyOmittedFields(cur, fragmentMap, fragmentMap[nd.name])
         [] OTHER ->
              LET value == Get(cur, nd.name)
              IN IF nd.name = "__typename" THEN cur
                 ELSE IF value = Undef THEN Obj(Set1(cur.f, nd.name, Null))
                 ELSE IF value.t \in {"obj", "arr"} /\ nd.selectionSet.set
                   THEN Obj(Set1(cur.f, nd.name,
                                 insertNullsForAnyOmittedFields(value, fragmentMap,
                                                                nd.selectionSet)))
                 ELSE cur
    : cur \in {insertNullsSelections(current, fragmentMap, selections, n - 1)} })

insertNullsForAnyOmittedFields(current, fragmentMap, currentSelectionSet) ==
  IF ~currentSelectionSet.set \/ current.t \notin {"obj", "arr"} THEN current
  ELSE IF IsArr(current)
    THEN Arr([i \in 1..Len(current.a) |->
                insertNullsForAnyOmittedFields(current.a[i], fragmentMap,
                                               currentSelectionSet)])
  ELSE insertNullsSelections(current, fragmentMap, currentSelectionSet.selections,
                             Len(currentSelectionSet.selections))

RECURSIVE findRestDirectivesThenInsertNullsForOmittedFields(_, _, _, _)
RECURSIVE findRestSelections(_, _, _, _, _)

findRestSelections(resultKey, current, fragmentMap, selections, n) ==
  IF n = 0 THEN current
  ELSE Only({
    LET nd == selections[n]
    IN CASE nd.kind = "InlineFragment" ->
              findRestDirectivesThenInsertNullsForOmittedFields(
                resultKey, cur, fragmentMap, nd.selectionSet)
         [] nd.kind = "FragmentSpread" ->
              findRestDirectivesThenInsertNullsForOmittedFields(
                resultKey, cur, fragmentMap, fragmentMap[nd.name])
         [] OTHER ->
              IF resultKeyNameFromField(nd) = resultKey /\ quickFindJsonApiDirective(nd)
                THEN insertNullsForAnyOmittedFields(cur, fragmentMap, nd.selectionSet)
                ELSE findRestDirectivesThenInsertNullsForOmittedFields(
                       resultKey, cur, fragmentMap, nd.selectionSet)
    : cur \in {findRestSelections(resultKey, current, fragmentMap, selections, n - 1)} })

findRestDirectivesThenInsertNullsForOmittedFields(resultKey, current, fragmentMap, currentSelectionSet) ==
  IF ~currentSelectionSet.set \/ current.t \notin {"obj", "arr"} THEN current
  ELSE findRestSelections(resultKey, current, fragmentMap,
                          currentSelectionSet.selections,
                          Len(currentSelectionSet.selections))

----------------------------------------------------------------------------
(* PathBuilder.  A path template is held as the bits that                  *)
(* path.split(argReplacement) yields: raw text, with the index of its      *)
(* first '?' and whether it holds a ':', and {key.path} placeholders.      *)

RawBit(text, q, colon) ==
  [ph |-> FALSE, text |-> text, keyPath |-> <<>>, q |-> q, colon |-> colon]

PlaceholderBit(text, keyPath) ==
  [ph |-> TRUE, text |-> text, keyPath |-> keyPath, q |-> -1, colon |-> FALSE]

\* path.includes(':')
PathIncludesColon(path) == \E i \in 1..Len(path) : path[i].colon

RECURSIVE BitsLength(_, _)
BitsLength(path, n) ==
  IF n = 0 THEN 0 ELSE BitsLength(path, n - 1) + Len(path[n].text)

\* path.indexOf('?')
queryOrigStartIndex(path) ==
  LET withQuery == {i \in 1..Len(path) : path[i].q >= 0}
  IN IF withQuery = {} THEN -1
     ELSE BitsLength(path, Min(withQuery) - 1) + path[Min(withQuery)].q

\* String(value)
RECURSIVE StringOf(_)
RECURSIVE JoinElements(_, _)
JoinElements(a, n) ==
  IF n = 0 THEN ""
  ELSE LET el == IF a[n].t \in {"null", "undef"} THEN "" ELSE StringOf(a[n])
       IN IF n = 1 THEN el ELSE JoinElements(a, n - 1) \o "," \o el

StringOf(v) ==
  CASE v.t = "str" -> v.s
    [] v.t = "undef" -> "undefined"
    [] v.t = "null" -> "null"
    [] v.t = "bool" -> IF v.b THEN "true" ELSE "false"
    [] v.t = "arr" -> JoinElements(v.a, Len(v.a))
    [] OTHER -> "[object Object]"

\* the order in which the keys of an argument object are enumerated
ArgKeyOrder == <<"id", "filter", "tag", "title", "input">>

\* the indices of an array, as qs writes them
IndexText == <<"0", "1", "2">>

\* encodeURIComponent on the strings of the model
encodeURIComponent(s) == IF s = "Love apollo" THEN "Love%20apollo" ELSE s

(* qs.stringify(value): one "key=value" pair per scalar found below value, *)
(* keys of nested objects and indices of arrays written prefix[key] with   *)
(* the brackets percent-encoded; undefined is skipped, null is written as  *)
(* the empty string.                                                       *)
RECURSIVE qsPairs(_, _)
RECURSIVE qsKeys(_, _, _, _)
RECURSIVE qsIndices(_, _, _)
qsPairs(prefix, v) ==
  CASE v.t = "undef" -> <<>>
    [] v.t = "null" -> <<prefix \o "=">>
    [] v.t = "obj" ->
         LET keys == SelectSeq(ArgKeyOrder, LAMBDA k : k \in DOMAIN v.f)
         IN qsKeys(prefix, v.f, keys, Len(keys))
    [] v.t = "arr" -> qsIndices(prefix, v.a, Len(v.a))
    [] OTHER -> <<prefix \o "=" \o encodeURIComponent(StringOf(v))>>

qsKeys(prefix, f, keys, n) ==
  IF n = 0 THEN <<>>
  ELSE qsKeys(prefix, f, keys, n - 1)
         \o qsPairs(IF prefix = "" THEN keys[n]
                    ELSE prefix \o "%5B" \o keys[n] \o "%5D", f[keys[n]])

qsIndices(prefix, a, n) ==
  IF n = 0 THEN <<>>
  ELSE qsIndices(prefix, a, n - 1)
         \o qsPairs(IF prefix = "" THEN IndexText[n]
                    ELSE prefix \o "%5B" \o IndexText[n] \o "%5D", a[n])

RECURSIVE JoinPairs(_, _)
JoinPairs(pairs, n) ==
  IF n = 0 THEN ""
  ELSE IF n = 1 THEN pairs[1]
  ELSE JoinPairs(pairs, n - 1) \o "&" \o pairs[n]

qsStringify(value) ==
  Only({ JoinPairs(pairs, Len(pairs)) : pairs \in {qsPairs("", value)} })

\* PathBuilderLookupValue: reading a property of null or undefined throws
RECURSIVE PathBuilderLookupValue(_, _)
PathBuilderLookupValue(tmp, keyPath) ==
  IF keyPath = <<>> THEN tmp
  ELSE IF tmp.t \in {"null", "undef"} THEN Throw
  ELSE PathBuilderLookupValue(Get(tmp, Head(keyPath)), Tail(keyPath))

\* one placeholder chunk action: the catch block turns a throw into ''
LookupChunk(props, keyPath, useQSEncoder) ==
  LET value == PathBuilderLookupValue(props, keyPath)
  IN IF value = Throw THEN ""
     ELSE IF ~useQSEncoder \/ value.t \notin {"obj", "arr"} THEN StringOf(value)
     ELSE qsStringify(value)

(* pathBits.reduce(...): the chunk actions of a template.  st.count is the *)
(* processedCount, st.begun is hasBegunQuery.                              *)
RECURSIVE chunkActions(_, _)
chunkActions(path, n) ==
  IF n = 0 THEN [count |-> 0, begun |-> FALSE, acts |-> <<>>]
  ELSE Only({
    LET bit == path[n]
        nextIndex == st.count + Len(bit.text)
    IN IF bit.text = "" \/ bit.text = "{}"
         THEN [st EXCEPT !.count = nextIndex]
       ELSE IF bit.ph
         THEN [st EXCEPT !.count = nextIndex,
                         !.acts = Append(@, [kind |-> "lookup", text |-> "",
                                             keyPath |-> bit.keyPath])]
       ELSE IF ~st.begun /\ nextIndex >= queryOrigStartIndex(path)
         THEN [count |-> nextIndex, begun |-> TRUE,
               acts |-> st.acts \o <<[kind |-> "raw", text |-> bit.text, keyPath |-> <<>>],
                                     [kind |-> "qs", text |-> "", keyPath |-> <<>>]>>]
       ELSE [st EXCEPT !.count = nextIndex,
                       !.acts = Append(@, [kind |-> "raw", text |-> bit.text,
                                           keyPath |-> <<>>])]
    : st \in {chunkActions(path, n - 1)} })

\* chunkActions.reduce(...): st.entered is hasEnteredQuery
RECURSIVE renderChunks(_, _, _)
renderChunks(acts, props, n) ==
  IF n = 0 THEN [acc |-> "", entered |-> FALSE]
  ELSE Only({
    CASE acts[n].kind = "raw" -> [st EXCEPT !.acc = @ \o acts[n].text]
      [] acts[n].kind = "qs" -> [st EXCEPT !.entered = TRUE]
      [] OTHER -> [st EXCEPT !.acc = @ \o LookupChunk(props, acts[n].keyPath, st.entered)]
    : st \in {renderChunks(acts, props, n - 1)} })

\* PathBuilder.replacerForPath(path)(props); the cache only memoizes
replacerForPath(path, props) ==
  Only({ renderChunks(acts, props, Len(acts)).acc :
         acts \in {chunkActions(path, Len(path)).acts} })

----------------------------------------------------------------------------
(* Key conversion, verbs, errors *)

\* a field-name (de)normalizer is a renaming of keys; keys it does not name
\* are kept.  noOpNameNormalizer renames nothing.
noOpNameNormalizer == <<>>

Convert(converter, key) == IF key \in DOMAIN converter THEN converter[key] ELSE key

\* a list of pass-through keys that is empty
noMangleKeysNone == {}

noMangleKeys == {"__typename"}

\* convertObjectKeys, for converters that send distinct keys to distinct keys
RECURSIVE convertObjectKeys(_, _)
convertObjectKeys(object, converter) ==
  IF IsArr(object)
    THEN Arr([i \in 1..Len(object.a) |-> convertObjectKeys(object.a[i], converter)])
  ELSE IF IsObj(object)
    THEN LET renamed(k) == IF k \in noMangleKeys THEN k ELSE Convert(converter, k)
             source(k2) == CHOOSE k \in DOMAIN object.f : renamed(k) = k2
         IN Obj([k2 \in {renamed(k) : k \in DOMAIN object.f} |->
                   IF source(k2) \in noMangleKeys THEN object.f[source(k2)]
                   ELSE convertObjectKeys(object.f[source(k2)], converter)])
  ELSE object

SUPPORTED_HTTP_VERBS == {"GET", "POST", "PUT", "PATCH", "DELETE"}

\* method.toUpperCase() on the verbs the model draws
toUpperCase(method) ==
  CASE method = "get" -> "GET"
    [] method = "delete" -> "DELETE"
    [] method = "post" -> "POST"
    [] OTHER -> method

ConfigError(message) ==
  [t |-> "error", name |-> "Error", message |-> message, statusCode |-> Undef,
   response |-> Undef, result |-> Undef]

\* an error thrown by the runtime, by fetch or by the transformer
ThrownError(name, message) ==
  [t |-> "error", name |-> name, message |-> message, statusCode |-> Undef,
   response |-> Undef, result |-> Undef]

NoError == Undef

\* validateRequestMethodForOperationType: NoError, or the Error it throws
validateRequestMethodForOperationType(method, operationType) ==
  CASE operationType = "query" ->
         IF toUpperCase(method) \in SUPPORTED_HTTP_VERBS THEN NoError
         ELSE ConfigError("A \"query\" operation can only support \"GET\" requests but got \""
                          \o method \o "\".")
    [] operationType = "mutation" ->
         IF toUpperCase(method) \in SUPPORTED_HTTP_VERBS THEN NoError
         ELSE ConfigError("\"mutation\" operations do not support that HTTP-verb")
    [] OTHER -> ConfigError("A \"subscription\" operation is not supported yet.")

\* rethrowServerSideError: the Error it builds and throws
rethrowServerSideError(response, result, message) ==
  [t |-> "error", name |-> "Error", message |-> message,
   statusCode |-> response.status, response |-> response, result |-> result]

\* addTypeToNode
RECURSIVE addTypeToNode(_, _)
addTypeToNode(nd, typename) ==
  IF IsObj(nd) THEN Obj(Set1(nd.f, "__typename", Str(typename)))
  ELSE IF IsArr(nd) THEN Arr([i \in 1..Len(nd.a) |-> addTypeToNode(nd.a[i], typename)])
  ELSE nd

----------------------------------------------------------------------------
(* The operation.  The model walks operations with at most two top-level   *)
(* fields (nodes 1 and 2) and at most one directive-tagged field below the *)
(* first one (node 3).                                                     *)

NoPath == [given |-> FALSE, bits |-> <<>>]
Path(bits) == [given |-> TRUE, bits |-> bits]

\* the arguments of an @jsonapi directive; method "" stands for none given
JsonApiDirective(path, pathBuilder, method, inc) ==
  [t |-> "directive", path |-> path, pathBuilder |-> pathBuilder,
   method |-> method, includeJsonapi |-> inc]

TypeDirective(name) == [t |-> "directive", name |-> name]

ExportDirective(as) == [t |-> "directive", as |-> as]

NodeIds == {1, 2, 3}

IsTagged(field) ==
  /\ field.kind = "Field"
  /\ field.selectionSet.set
  /\ (field.directives.jsonapi # Undef \/ field.directives.type # Undef)

TaggedChildren(field) ==
  {i \in 1..Len(field.selectionSet.selections) : IsTagged(field.selectionSet.selections[i])}

HasNode(o, n) ==
  CASE n = 1 -> Len(o.selectionSet.selections) >= 1
    [] n = 2 -> Len(o.selectionSet.selections) >= 2
    [] OTHER -> /\ Len(o.selectionSet.selections) >= 1
                /\ TaggedChildren(o.selectionSet.selections[1]) # {}

NodeField(o, n) ==
  IF n \in {1, 2} THEN o.selectionSet.selections[n]
  ELSE LET parent == o.selectionSet.selections[1]
       IN parent.selectionSet.selections[Min(TaggedChildren(parent))]

\* hasDirectives(['jsonapi'], query)
isJsonApiQuery(o) ==
  \E n \in NodeIds : HasNode(o, n) /\ quickFindJsonApiDirective(NodeField(o, n))

----------------------------------------------------------------------------
(* resolver: the part of one call that runs before its first await, and    *)
(* what graphql-anywhere does with a resolved field.                       *)

IdleNode ==
  [pc |-> "idle", exportVariables |-> Undef, response |-> Undef, reads |-> 0,
   shaped |-> Undef, result |-> Undef, copied |-> Undef, error |-> NoError]

\* JSON.stringify(data): undefined stays undefined
JSONStringify(data) == IF data = Undef THEN Undef ELSE [t |-> "text", json |-> data]

\* the path a user-supplied pathBuilder of the model returns
BuiltPath == "/built"

\* endpoints[DEFAULT_ENDPOINT_KEY]
EndpointUri == "/api"

\* resolver lines 784-806 for a field without @jsonapi: the value returned,
\* and the export variables stored for root afterwards.  directives.export
\* is not read.
nonJsonApiCall(field, root, exportVariables) ==
  LET aliasedNode == Get(root, resultKeyNameFromField(field))
      preAliasingNode == Get(root, field.name)
  IN [value |-> IF Truthy(aliasedNode) THEN aliasedNode ELSE preAliasingNode,
      exportVariables |-> exportVariables]

\* as resolverThrow, for a resolver that raises the error after its fetch call
resolverThrowAfterFetch(n, err, st) ==
  [st EXCEPT !.node[n].pc = "failed", !.node[n].error = err, !.failed = Append(@, n),
             !.requests = Append(@, [node |-> n, url |-> "", method |-> "",
                                     body |-> Undef])]

\* the resolver call of node n throws err: its promise rejects
resolverThrow(n, err, st) ==
  [st EXCEPT !.node[n].pc = "failed", !.node[n].error = err, !.failed = Append(@, n)]

RECURSIVE resolverStart(_, _, _, _, _)
RECURSIVE executeField(_, _, _, _, _)
RECURSIVE executeChildren(_, _, _, _, _, _)

(* The resolver call of node n up to its first await.  st holds the node  *)
(* states, the requests made and the nodes that failed, in order.          *)
resolverStart(o, n, root, exportVariables, st) ==
  LET field == NodeField(o, n)
      directives == field.directives
      jsonapi == directives.jsonapi
      isLeaf == ~field.selectionSet.set
      preAliasingNode == Get(root, field.name)
      st0 == [st EXCEPT !.node[n].exportVariables = exportVariables]
      throw(err) == resolverThrow(n, err, st0)
      neitherPathsProvided == ~jsonapi.path.given /\ ~jsonapi.pathBuilder
      props == Obj([args |-> field.args, exportVariables |-> exportVariables])
      pathWithParams == IF jsonapi.pathBuilder THEN BuiltPath
                        ELSE replacerForPath(jsonapi.path.bits, props)
      method == IF jsonapi.method = "" THEN "GET" ELSE jsonapi.method
      requestBody == IF method \notin {"GET", "DELETE"}
                       THEN JSONStringify(convertObjectKeys(
                                            Get(field.args, "input"),
                                            o.fieldNameDenormalizer))
                       ELSE Undef
      verdict == validateRequestMethodForOperationType(method, o.operationType)
  IN IF ~isLeaf /\ directives.type # Undef
       THEN IF jsonapi # Undef
              THEN throw(ConfigError(
                     "Invalid use of @type(name: ...) directive on a call that also has @jsonapi(...)"))
              ELSE executeField(o, n, addTypeToNode(preAliasingNode, directives.type.name),
                                Undef, st0)
     ELSE IF jsonapi = Undef
       THEN executeField(o, n, nonJsonApiCall(field, root, exportVariables).value,
                         exportVariables, st0)
     ELSE IF neitherPathsProvided
       THEN throw(ConfigError(
              "One of (\"path\" | \"pathBuilder\") must be set in the @jsonapi() directive. This request had neither, please add one"))
     ELSE IF ~jsonapi.pathBuilder /\ PathIncludesColon(jsonapi.path.bits)
       THEN throw(ConfigError(
              "'@jsonapi(path:' contains a ':' colon, this format is not supported"))
     ELSE IF method \notin {"GET", "DELETE"} /\ field.args \in {Null, Undef}
       THEN throw(ThrownError("TypeError", "Cannot read property 'input' of null"))
     ELSE IF verdict # NoError THEN throw(verdict)
     ELSE [st0 EXCEPT !.node[n].pc = "inflight",
                      !.requests = Append(@, [node |-> n,
                                              url |-> EndpointUri \o pathWithParams,
                                              method |-> method, body |-> requestBody])]

(* The resolver of node n returned value; copied is the export-variable   *)
(* set copyExportVariables stored for it (Undef when it stored none).      *)
(* graphql-anywhere descends into the selection set of a non-null result.  *)
executeField(o, n, value, copied, st) ==
  LET st1 == [st EXCEPT !.node[n].pc = "resolved", !.node[n].result = value,
                        !.node[n].copied = copied]
  IN IF n # 1 \/ ~HasNode(o, 3) THEN st1
     ELSE IF ~IsObj(value) THEN [st1 EXCEPT !.node[3].pc = "skipped"]
     ELSE executeChildren(o, value, IF copied = Undef THEN EmptyObj ELSE copied,
                          NodeField(o, 1).selectionSet.selections,
                          Len(NodeField(o, 1).selectionSet.selections), st1).st

(* executeSelectionSet on the result of node 1: the resolvers of its child *)
(* fields start in document order; exportVariables is the set stored for   *)
(* the result object, which every child reads.                             *)
executeChildren(o, root, exportVariables, selections, k, st) ==
  IF k = 0 THEN [exportVariables |-> exportVariables, st |-> st]
  ELSE Only({
    IF selections[k].kind # "Field" THEN before
    ELSE IF IsTagged(selections[k])
      THEN IF k = Min(TaggedChildren(NodeField(o, 1)))
             THEN [before EXCEPT !.st = resolverStart(o, 3, root, before.exportVariables,
                                                      before.st)]
             ELSE before
    ELSE [before EXCEPT !.exportVariables =
            nonJsonApiCall(selections[k], root, before.exportVariables).exportVariables]
    : before \in {executeChildren(o, root, exportVariables, selections, k - 1, st)} })

----------------------------------------------------------------------------
(* resolver: from the response to the value returned *)

\* response.ok
ResponseOk(response) == response.status >= 200 /\ response.status <= 299

\* as classifyResponse, for a resolver that takes every 2xx response to the
\* transformer
classifyResponseAlwaysRead(response) ==
  IF ResponseOk(response) THEN [kind |-> "transform", value |-> Undef]
  ELSE IF response.status = 404 THEN [kind |-> "value", value |-> Null]
  ELSE [kind |-> "error", value |-> Undef]

\* as classifyResponse, for a resolver that treats 404 like the other
\* unsuccessful statuses
classifyResponseNotFoundThrows(response) ==
  IF ResponseOk(response)
    THEN IF response.status = 204 \/ response.contentLength = Str("0")
           THEN [kind |-> "value", value |-> EmptyObj]
           ELSE [kind |-> "transform", value |-> Undef]
  ELSE [kind |-> "error", value |-> Undef]

(* resolver lines 899-942, before any read of the body: an immediate      *)
(* result, the transformer, or the server-side error.                     *)
classifyResponse(response) ==
  IF ResponseOk(response)
    THEN IF response.status = 204 \/ response.contentLength = Str("0")
           THEN [kind |-> "value", value |-> EmptyObj]
           ELSE [kind |-> "transform", value |-> Undef]
  ELSE IF response.status = 404 THEN [kind |-> "value", value |-> Null]
  ELSE [kind |-> "error", value |-> Undef]

\* response.json(): the parsed body, or a SyntaxError
ResponseJson(response) == IF response.body.json THEN response.body.value ELSE Throw

\* response.text()
ResponseText(response) == response.body.value

\* `${response.status}` for the statuses the model draws
StatusText(status) ==
  CASE status = 304 -> "304"
    [] status = 500 -> "500"
    [] status = 404 -> "404"
    [] OTHER -> "?"

(* resolver lines 944-956: key normalization, the null-patch pass and     *)
(* copyExportVariables on the shaped result of node n, then the descent   *)
(* of graphql-anywhere into it.                                            *)
resolverReturn(o, n, shaped, st) ==
  LET field == NodeField(o, n)
      normalized == IF o.fieldNameNormalizer # Null
                      THEN convertObjectKeys(shaped, o.fieldNameNormalizer.f)
                      ELSE shaped
  IN Only({ executeField(o, n, result, st.node[n].exportVariables,
                         [st EXCEPT !.node[n].shaped = shaped]) :
            result \in {findRestDirectivesThenInsertNullsForOmittedFields(
                          resultKeyNameFromField(field), normalized, o.fragmentMap,
                          o.selectionSet)} })

\* the resolver resumes with the response of fetch
resolverResume(o, n, response, st) ==
  LET st1 == [st EXCEPT !.node[n].response = response]
      verdict == classifyResponse(response)
  IN IF verdict.kind = "value" THEN resolverReturn(o, n, verdict.value, st1)
     ELSE [st1 EXCEPT !.node[n].pc = "reading"]

\* the resolver resumes with the body it awaited
resolverBody(o, n, st) ==
  LET response == st.node[n].response
      parsed == ResponseJson(response)
      inc == NodeField(o, n).directives.jsonapi.includeJsonapi
  IN IF ResponseOk(response)
       THEN IF parsed = Throw
              THEN resolverThrow(n, ThrownError("SyntaxError", "Unexpected token"),
                                 [st EXCEPT !.node[n].reads = 1])
              ELSE Only({ IF shaped = Throw
                            THEN resolverThrow(n, ThrownError("TypeError", "Cannot read property"),
                                               [st EXCEPT !.node[n].reads = 1])
                            ELSE resolverReturn(o, n, shaped,
                                                [st EXCEPT !.node[n].reads = 1]) :
                          shaped \in {jsonapiResponseTransformer(parsed, inc)} })
     ELSE resolverThrow(
            n,
            rethrowServerSideError(
              response,
              IF parsed = Throw THEN ResponseText(response) ELSE parsed,
              "Response not successful: Received status code "
                \o StatusText(response.status)),
            [st EXCEPT !.node[n].reads = IF parsed = Throw THEN 2 ELSE 1])

----------------------------------------------------------------------------
(* graphql-anywhere: the result tree built from the resolved values *)

\* addTypenameToDocument on one selection set
withTypename(selections) ==
  IF \E i \in 1..Len(selections) :
       selections[i].kind = "Field" /\ selections[i].name = "__typename"
    THEN selections
    ELSE Append(selections, Leaf("__typename"))

RECURSIVE executeSelectionSet(_, _, _, _, _, _)
RECURSIVE executeSubSelected(_, _, _, _, _)

\* what executeField places for a field whose resolver returned value
executeSubSelected(o, field, value, nodes, level) ==
  IF ~field.selectionSet.set \/ value.t \in {"null", "undef"} THEN value
  ELSE IF IsArr(value)
    THEN Arr([i \in 1..Len(value.a) |->
                executeSubSelected(o, field, value.a[i], nodes, level)])
  ELSE Obj(executeSelectionSet(o, withTypename(field.selectionSet.selections),
                               Len(withTypename(field.selectionSet.selections)),
                               value, nodes, level))

(* the keys executeSelectionSet collects for the first k selections; level *)
(* is "root" for the operation's own selection set, "first" for that of    *)
(* node 1, "other" elsewhere                                               *)
executeSelectionSet(o, selections, k, root, nodes, level) ==
  IF k = 0 THEN <<>>
  ELSE Only({
    LET sel == selections[k]
        id == IF level = "root" THEN k
              ELSE IF level = "first" /\ IsTagged(sel)
                      /\ k = Min(TaggedChildren(NodeField(o, 1))) THEN 3
              ELSE 0
        value == IF id # 0 THEN nodes[id].result
                 ELSE nonJsonApiCall(sel, root, EmptyObj).value
    IN CASE sel.kind = "InlineFragment" ->
              Spread(acc, executeSelectionSet(o, sel.selectionSet.selections,
                                              Len(sel.selectionSet.selections),
                                              root, nodes, "other"))
         [] sel.kind = "FragmentSpread" ->
              Spread(acc, executeSelectionSet(o, o.fragmentMap[sel.name].selections,
                                              Len(o.fragmentMap[sel.name].selections),
                                              root, nodes, "other"))
         [] OTHER ->
              IF value = Undef THEN acc
              ELSE Set1(acc, resultKeyNameFromField(sel),
                        executeSubSelected(o, sel, value, nodes,
                                           IF id = 1 THEN "first" ELSE "other"))
    : acc \in {executeSelectionSet(o, selections, k - 1, root, nodes, level)} })

\* the data graphql() resolves with
ResultTree(o, nodes) ==
  Obj(executeSelectionSet(o, o.selectionSet.selections, Len(o.selectionSet.selections),
                          EmptyObj, nodes, "root"))

----------------------------------------------------------------------------
(* The operations and responses the link is run on *)

PathPost == <<RawBit("/post/1", -1, FALSE)>>
PathTags == <<RawBit("/tags", -1, FALSE)>>
PathColon == <<RawBit("/post/:id", -1, TRUE)>>
PathExport ==
  <<RawBit("/posts/", -1, FALSE),
    PlaceholderBit("{exportVariables.postId}", <<"exportVariables", "postId">>),
    RawBit("/tags", -1, FALSE)>>

\* /posts/{args.id}?{args.filter}
PathQuery ==
  <<RawBit("/posts/", -1, FALSE), PlaceholderBit("{args.id}", <<"args", "id">>),
    RawBit("?", 0, FALSE), PlaceholderBit("{args.filter}", <<"args", "filter">>)>>

\* /posts/{args.filter}
PathNoQuery ==
  <<RawBit("/posts/", -1, FALSE), PlaceholderBit("{args.filter}", <<"args", "filter">>)>>

\* /posts/{args.filter}?a=1
PathBeforeQuery ==
  <<RawBit("/posts/", -1, FALSE), PlaceholderBit("{args.filter}", <<"args", "filter">>),
    RawBit("?a=1", 0, FALSE)>>

\* {args.filter}/posts: split() yields an empty first bit
PathLeading ==
  <<RawBit("", -1, FALSE), PlaceholderBit("{args.filter}", <<"args", "filter">>),
    RawBit("/posts", -1, FALSE)>>

\* /posts?{args}
PathAllArgs ==
  <<RawBit("/posts?", 6, FALSE), PlaceholderBit("{args}", <<"args">>)>>

\* /posts/{args.filter.tag}?by={args.author.id}
PathDeep ==
  <<RawBit("/posts/", -1, FALSE),
    PlaceholderBit("{args.filter.tag}", <<"args", "filter", "tag">>),
    RawBit("?by=", 0, FALSE),
    PlaceholderBit("{args.author.id}", <<"args", "author", "id">>)>>

PathTemplates ==
  {PathQuery, PathNoQuery, PathBeforeQuery, PathLeading, PathAllArgs, PathDeep}

\* the arguments the templates are compiled against
PathArgs ==
  {Obj([id |-> Str("1"), filter |-> Obj([tag |-> Str("x")])]),
   Obj([id |-> Str("Love apollo"), filter |-> Arr(<<Str("a"), Str("b")>>)]),
   Obj([id |-> Str("1")]),
   Obj([filter |-> Null]),
   NoArgs}

Methods == {"", "GET", "get", "POST", "PUT", "DELETE", "HEAD"}

OperationTypes == {"query", "mutation", "subscription"}

Directives(jsonapi, type) == [jsonapi |-> jsonapi, type |-> type, export |-> Undef]

Get1(path) == Directives(JsonApiDirective(Path(path), FALSE, "", FALSE), Undef)

InputArgs == Obj([input |-> Obj([title |-> Str("T")])])

ExportedId ==
  Field("id", "", [NoDirectives EXCEPT !.export = ExportDirective("postId")],
        NoArgs, NoSelectionSet)

\* the selections of the `post` field: leaves, one the server never sends,
\* a nested object, then the tagged child if there is one
PostSelections(idField, child) ==
  <<idField, Leaf("title"), Leaf("extra"),
    Field("r1", "", NoDirectives, NoArgs, SelectionSet(<<Leaf("name"), Leaf("rank")>>))>>
    \o child

\* the selections of a `tags` field: a leaf, an inline fragment and a
\* spread of the named fragment TagFields
TagsSelections ==
  SelectionSet(<<Leaf("name"),
                 InlineFragment(SelectionSet(<<Leaf("rank")>>)),
                 FragmentSpread("TagFields")>>)

Fragments == [TagFields |-> SelectionSet(<<Leaf("title")>>)]

Operation(operationType, selections) ==
  [operationType |-> operationType, selectionSet |-> SelectionSet(selections),
   fragmentMap |-> Fragments, fieldNameNormalizer |-> Null,
   fieldNameDenormalizer |-> noOpNameNormalizer]

\* every combination of directives on a single field
SingleDirectives ==
  {Directives(j, t) :
     j \in {Undef, JsonApiDirective(Path(PathPost), FALSE, "", TRUE)}
             \cup {JsonApiDirective(p, b, m, FALSE) :
                     p \in {Path(PathPost), Path(PathColon), NoPath},
                     b \in BOOLEAN, m \in Methods},
     t \in {Undef, TypeDirective("Post")}}

SingleOperations ==
  {Operation(ot, <<Field("post", "", d, InputArgs,
                         SelectionSet(PostSelections(Leaf("id"), <<>>)))>>) :
     ot \in OperationTypes, d \in SingleDirectives}

\* the tagged field below `post`
Children ==
  {<<>>,
   <<Field("tags", "", Get1(PathTags), NoArgs, TagsSelections)>>,
   <<Field("comments", "", Get1(PathExport), NoArgs, TagsSelections)>>,
   <<Field("post", "", Get1(PathTags), NoArgs, TagsSelections)>>,
   <<Field("tags", "", Directives(JsonApiDirective(Path(PathTags), FALSE, "", FALSE),
                                  TypeDirective("Tag")), NoArgs, TagsSelections)>>,
   <<Field("tags", "", Directives(JsonApiDirective(NoPath, FALSE, "", FALSE), Undef),
           NoArgs, TagsSelections)>>,
   <<Field("r1", "", Directives(Undef, TypeDirective("Author")), NoArgs,
           TagsSelections)>>}

FirstFields ==
  {Field("post", "", Get1(PathPost), NoArgs,
         SelectionSet(PostSelections(ExportedId, c))) : c \in Children}
    \cup {Field("post", "", Get1(PathColon), NoArgs,
                SelectionSet(PostSelections(Leaf("id"), <<>>)))}

SecondFields ==
  {Field("tags", "", Get1(PathTags), NoArgs, TagsSelections),
   Field("tags", "", Directives(JsonApiDirective(NoPath, FALSE, "", FALSE), Undef),
         NoArgs, TagsSelections),
   Field("tags", "", Directives(JsonApiDirective(Path(PathTags), FALSE, "HEAD", FALSE),
                                Undef), NoArgs, TagsSelections)}

MultiOperations ==
  {Operation(ot, <<f1, f2>>) :
     ot \in {"query", "mutation"}, f1 \in FirstFields, f2 \in SecondFields}

\* one field whose path is a template with placeholders
PathOperations ==
  {Operation("query", <<Field("post", "", Get1(t), args,
                              SelectionSet(PostSelections(Leaf("id"), <<>>)))>>) :
     t \in PathTemplates, args \in PathArgs}

\* humps' camelize, the fieldNameNormalizer of the repository's tests, on
\* the keys of the model's documents: it drops the leading underscores
camelize ==
  [__typename |-> "typename",
   __relationships_denormalizing |-> "relationshipsDenormalizing"]

\* operations of a link constructed with fieldNameNormalizer: camelize
NormalizedOperations ==
  {[Operation("query", <<f1, f2>>) EXCEPT !.fieldNameNormalizer = [f |-> camelize]] :
     f1 \in {Field("post", "", Get1(PathPost), NoArgs,
                   SelectionSet(PostSelections(ExportedId, c))) :
               c \in {<<>>, <<Field("tags", "", Get1(PathTags), NoArgs,
                                    TagsSelections)>>}},
     f2 \in {Field("tags", "", Get1(PathTags), NoArgs, TagsSelections)}}

\* name written with the alias `alias: name`, without directives
Aliased(alias, name) == Field(name, alias, NoDirectives, NoArgs, NoSelectionSet)

\* post @jsonapi { id heading: title title: id missing: extra
\*                 author: r1 { label: name name: id } }
AliasSelections ==
  SelectionSet(<<Leaf("id"), Aliased("heading", "title"), Aliased("title", "id"),
                 Aliased("missing", "extra"),
                 Field("r1", "author", NoDirectives, NoArgs,
                       SelectionSet(<<Aliased("label", "name"),
                                      Aliased("name", "id")>>))>>)

\* one field whose selections are written with aliases
AliasOperations ==
  {Operation("query", <<Field("post", a, Get1(PathPost), NoArgs, AliasSelections)>>) :
     a \in {"", "p"}}

Operations ==
  SingleOperations \cup MultiOperations \cup PathOperations \cup NormalizedOperations
    \cup AliasOperations

DocPost ==
  Obj([data |-> ResourceP(Obj([r1 |-> One(IdentA)])),
       included |-> Arr(<<ResourceA(Undef)>>)])

DocTags == Obj([data |-> Arr(<<ResourceA(Undef), ResourceB(Undef)>>)])

\* a post whose second relationship names a resource that was not included
DocStub ==
  Obj([data |-> ResourceP(Obj([r1 |-> One(IdentA), r2 |-> Many(<<IdentA, IdentB>>)])),
       included |-> Arr(<<ResourceA(Undef)>>)])

\* a post and its author, each related to the other
DocCycle ==
  Obj([data |-> ResourceP(Obj([r1 |-> One(IdentA)])),
       included |-> Arr(<<ResourceA(Obj([r1 |-> One(IdentP)]))>>)])

DocErrors == Obj([errors |-> Arr(<<Obj([detail |-> Str("boom")])>>)])

\* documents without primary data: an empty to-one resource, meta only
DocNullData == Obj([data |-> Null])
DocMeta == Obj([meta |-> Obj([total |-> Str("0")])])

JsonBody(value) == [json |-> TRUE, value |-> value]
TextBody(text) == [json |-> FALSE, value |-> Str(text)]

Response(status, contentLength, responseBody) ==
  [status |-> status, contentLength |-> contentLength, body |-> responseBody]

Statuses == {200, 201, 204, 304, 404, 500}

\* what the server may answer an operation of one field with
SingleResponses ==
  {Response(st, cl, b) :
     st \in Statuses, cl \in {Null, Str("0"), Str("17")},
     b \in {JsonBody(DocPost), JsonBody(DocErrors), JsonBody(DocNullData),
            JsonBody(DocMeta), TextBody("oops")}}

\* what the server may answer the field called name with, in an operation
\* of several fields
MultiResponses(name) ==
  {Response(200, Null, JsonBody(IF name = "post" THEN DocPost ELSE DocTags)),
   Response(204, Null, TextBody("")),
   Response(404, Null, TextBody("Not found")),
   Response(500, Null, JsonBody(DocErrors)),
   Response(500, Null, TextBody("Internal"))}

\* what the server may answer the field called name with, in an operation
\* of a link with a fieldNameNormalizer
NormalizedResponses(name) ==
  {Response(200, Null, JsonBody(d)) :
     d \in IF name = "post" THEN {DocPost, DocStub, DocCycle} ELSE {DocTags}}
    \cup {Response(404, Null, TextBody("Not found"))}

ResponsesFor(o, n) ==
  IF o \in SingleOperations THEN SingleResponses
  ELSE IF o.fieldNameNormalizer # Null THEN NormalizedResponses(NodeField(o, n).name)
  ELSE MultiResponses(NodeField(o, n).name)

\* what fetch may reject with
TransportErrors ==
  {ThrownError("AbortError", "The user aborted a request."),
   ThrownError("TypeError", "Failed to fetch")}

----------------------------------------------------------------------------
(* JsonApiLink.request *)

PresentNodes(o) == {n \in NodeIds : HasNode(o, n)}

\* as notify, for an observer that is called whatever the subscription's state
notifyClosed(obs, callbacks) == obs \o callbacks

(* observer.next / error / complete of the observable's subscription       *)
(* observer: once the consumer has unsubscribed the subscription is closed *)
(* and the calls reach no callback.                                        *)
notify(obs, callbacks) ==
  IF subscription.state = "closed" THEN obs ELSE obs \o callbacks

\* as Settle, for a catch handler that never passes err.result to next
SettleErrorOnly(o, st, resps, pr, obs, ctx) ==
  IF pr.state # "pending" THEN [promise |-> pr, observer |-> obs, context |-> ctx]
  ELSE IF st.failed # <<>>
    THEN LET err == st.node[st.failed[1]].error
         IN [promise |-> [state |-> "rejected", value |-> err],
             observer |-> IF err.name = "AbortError" THEN obs
                          ELSE notify(obs, <<[cb |-> "error", value |-> err]>>),
             context |-> ctx]
  ELSE IF \A n \in PresentNodes(o) : st.node[n].pc \in {"resolved", "skipped"}
    THEN Only({ [promise |-> [state |-> "fulfilled", value |-> data],
                 observer |-> notify(obs, <<[cb |-> "next",
                                             value |-> Obj([data |-> data,
                                                            errors |-> Undef])],
                                            [cb |-> "complete", value |-> Undef]>>),
                 context |-> [ctx EXCEPT !.restResponses = @ \o resps]] :
                data \in {ResultTree(o, st.node)} })
  ELSE [promise |-> pr, observer |-> obs, context |-> ctx]

\* as Settle, for a catch handler without the AbortError test
SettleAbortSurfaces(o, st, resps, pr, obs, ctx) ==
  IF pr.state # "pending" THEN [promise |-> pr, observer |-> obs, context |-> ctx]
  ELSE IF st.failed # <<>>
    THEN LET err == st.node[st.failed[1]].error
         IN [promise |-> [state |-> "rejected", value |-> err],
             observer |->
               IF Truthy(err.result) /\ Truthy(Get(err.result, "errors"))
                 THEN notify(obs, <<[cb |-> "next", value |-> err.result],
                                    [cb |-> "error", value |-> err]>>)
               ELSE notify(obs, <<[cb |-> "error", value |-> err]>>),
             context |-> ctx]
  ELSE IF \A n \in PresentNodes(o) : st.node[n].pc \in {"resolved", "skipped"}
    THEN Only({ [promise |-> [state |-> "fulfilled", value |-> data],
                 observer |-> notify(obs, <<[cb |-> "next",
                                             value |-> Obj([data |-> data,
                                                            errors |-> Undef])],
                                            [cb |-> "complete", value |-> Undef]>>),
                 context |-> [ctx EXCEPT !.restResponses = @ \o resps]] :
                data \in {ResultTree(o, st.node)} })
  ELSE [promise |-> pr, observer |-> obs, context |-> ctx]

(* The handlers chained on graphql(...): they run as soon as the promise   *)
(* settles, which is when a resolver call fails or when every field has    *)
(* resolved.  st.failed lists the nodes that failed in this step, first    *)
(* failure first.                                                          *)
Settle(o, st, resps, pr, obs, ctx) ==
  IF pr.state # "pending" THEN [promise |-> pr, observer |-> obs, context |-> ctx]
  ELSE IF st.failed # <<>>
    THEN LET err == st.node[st.failed[1]].error
         IN [promise |-> [state |-> "rejected", value |-> err],
             observer |->
               IF err.name = "AbortError" THEN obs
               ELSE IF Truthy(err.result) /\ Truthy(Get(err.result, "errors"))
                 THEN notify(obs, <<[cb |-> "next", value |-> err.result],
                                    [cb |-> "error", value |-> err]>>)
               ELSE notify(obs, <<[cb |-> "error", value |-> err]>>),
             context |-> ctx]
  ELSE IF \A n \in PresentNodes(o) : st.node[n].pc \in {"resolved", "skipped"}
    THEN Only({ [promise |-> [state |-> "fulfilled", value |-> data],
                 observer |-> notify(obs, <<[cb |-> "next",
                                             value |-> Obj([data |-> data,
                                                            errors |-> Undef])],
                                            [cb |-> "complete", value |-> Undef]>>),
                 context |-> [ctx EXCEPT !.restResponses = @ \o resps]] :
                data \in {ResultTree(o, st.node)} })
  ELSE [promise |-> pr, observer |-> obs, context |-> ctx]

\* the step leaves the link in the state st, with resps the responses
Commit(st, resps) ==
  \E s \in {Settle(operation, st, resps, promise, observer, context)} :
    /\ node' = st.node
    /\ requests' = st.requests
    /\ responses' = resps
    /\ promise' = s.promise
    /\ observer' = s.observer
    /\ context' = s.context
    /\ UNCHANGED <<operation, subscription, tvars>>

Running == [node |-> node, requests |-> requests, failed |-> <<>>]

\* as RootNodes, for a walk that starts every tagged field of the document
EveryNode(o) == SelectSeq(<<1, 2, 3>>, LAMBDA n : HasNode(o, n))

\* the fields graphql() calls the resolver for when it starts: those of the
\* operation's own selection set
RootNodes(o) == SelectSeq(<<1, 2>>, LAMBDA n : HasNode(o, n))

RECURSIVE startNodes(_, _, _, _)
startNodes(o, ns, k, st) ==
  IF k = 0 THEN st
  ELSE Only({ resolverStart(o, ns[k], EmptyObj, EmptyObj, before) :
              before \in {startNodes(o, ns, k - 1, st)} })

\* a query without @jsonapi is handed to the next link untouched
Forward ==
  /\ promise.state = "idle"
  /\ ~isJsonApiQuery(operation)
  /\ promise' = [state |-> "forwarded", value |-> Undef]
  /\ UNCHANGED <<operation, node, requests, responses, observer, context,
                 subscription, tvars>>

(* request() and the subscription to the observable it returns: graphql() *)
(* starts the resolver of every top-level field, in document order.       *)
Request ==
  /\ promise.state = "idle"
  /\ isJsonApiQuery(operation)
  /\ \E st \in {startNodes(operation, RootNodes(operation),
                             Len(RootNodes(operation)), Running)} :
       \E s \in {Settle(operation, st, responses,
                        [state |-> "pending", value |-> Undef], observer, context)} :
         /\ node' = st.node
         /\ requests' = st.requests
         /\ promise' = s.promise
         /\ observer' = s.observer
         /\ context' = s.context
         /\ subscription' = [state |-> "open", requests |-> 0]
         /\ UNCHANGED <<operation, responses, tvars>>

\* as FetchReturns, for a resolver that pushes the response twice
FetchReturnsRecordedTwice(n) ==
  /\ node[n].pc = "inflight"
  /\ \E response \in ResponsesFor(operation, n) :
       \E st \in {resolverResume(operation, n, response, Running)} :
         Commit(st, responses \o <<response, response>>)

\* fetch resolves for node n: the response is recorded and classified
FetchReturns(n) ==
  /\ node[n].pc = "inflight"
  /\ \E response \in ResponsesFor(operation, n) :
       \E st \in {resolverResume(operation, n, response, Running)} :
         Commit(st, Append(responses, response))

\* the body node n awaited has been read
BodyRead(n) ==
  /\ node[n].pc = "reading"
  /\ \E st \in {resolverBody(operation, n, Running)} : Commit(st, responses)

\* fetch rejects for node n
FetchRejects(n) ==
  /\ node[n].pc = "inflight"
  /\ \E err \in TransportErrors : Commit(resolverThrow(n, err, Running), responses)

(* The consumer unsubscribes while the operation is running.  The        *)
(* subscriber function request() hands to Observable returns no cleanup,   *)
(* so nothing of the walk is told; subscription.requests keeps how many    *)
(* requests had been made by then.                                         *)
Unsubscribe ==
  /\ subscription.state = "open"
  /\ promise.state = "pending"
  /\ subscription' = [state |-> "closed", requests |-> Len(requests)]
  /\ UNCHANGED <<operation, node, requests, responses, promise, observer, context,
                 tvars>>

\* context.restResponses when request() is called: absent, or the response
\* an earlier operation left there
EarlierResponses == {<<>>, <<Response(200, Null, TextBody("earlier"))>>}

InitLink ==
  /\ operation \in Operations
  /\ node = [n \in NodeIds |-> IdleNode]
  /\ requests = <<>>
  /\ responses = <<>>
  /\ promise = [state |-> "idle", value |-> Undef]
  /\ observer = <<>>
  /\ context \in {[restResponses |-> r] : r \in EarlierResponses}
  /\ subscription = [state |-> "idle", requests |-> 0]
  /\ doc = Null
  /\ body = Null
  /\ step = "link"
  /\ includeJsonapi = FALSE
  /\ normalizer \in TypeNameNormalizers
  /\ calls = 0
  /\ diverged = FALSE

NextLink ==
  \/ Forward
  \/ Request
  \/ \E n \in NodeIds : FetchReturns(n)
  \/ \E n \in NodeIds : BodyRead(n)
  \/ \E n \in NodeIds : FetchRejects(n)
  \/ Unsubscribe

SpecLink == InitLink /\ [][NextLink]_vars

----------------------------------------------------------------------------
(* Properties of the link *)

RequestsOf(n) == {i \in 1..Len(requests) : requests[i].node = n}

\* the resolver of node n has been called
Started(n) == node[n].exportVariables # Undef

\* node n has a response and the resolver is through with it
Answered(n) == node[n].response # Undef /\ node[n].pc \in {"resolved", "failed"}

IncludeJsonapiOf(n) == NodeField(operation, n).directives.jsonapi.includeJsonapi

\* what C4 says the response of node n leads to
OutcomeAsClassified(n) ==
  LET r == node[n].response
      nd == node[n]
      success == r.status \in 200..299
      noContent == r.status = 204 \/ r.contentLength = Str("0")
      piped == IF r.body.json
                 THEN jsonapiResponseTransformer(r.body.value, IncludeJsonapiOf(n))
                 ELSE Throw
  IN CASE success /\ noContent ->
            nd.pc = "resolved" /\ nd.shaped = EmptyObj /\ nd.reads = 0
       [] success /\ ~noContent ->
            /\ nd.reads = 1
            /\ IF piped = Throw THEN nd.pc = "failed"
               ELSE nd.pc = "resolved" /\ nd.shaped = piped
       [] r.status = 404 ->
            nd.pc = "resolved" /\ nd.shaped = Null /\ nd.result = Null /\ nd.reads = 0
       [] OTHER ->
            /\ nd.pc = "failed"
            /\ nd.error.statusCode = r.status
            /\ nd.error.response = r
            /\ IF r.body.json
                 THEN nd.error.result = r.body.value /\ nd.reads = 1
                 ELSE nd.error.result = ResponseText(r) /\ nd.reads = 2

(* C4: the outcome of a fetch node is decided by its response.  A 2xx      *)
(* response with status 204 or Content-Length 0 gives the empty object and *)
(* the body is not read; any other 2xx response gives the body run through *)
(* the transformer; 404 gives null; every other status, also with          *)
(* Content-Length 0, fails the node with an error that carries the status  *)
(* code, the response and the parsed body (JSON, else the raw text).       *)
C4_ResponseDecidesOutcome ==
  \A n \in NodeIds :
    /\ Answered(n) => OutcomeAsClassified(n)
    /\ node[n].pc = "reading" =>
         /\ node[n].response.status # 404
         /\ ~(ResponseOk(node[n].response)
              /\ (node[n].response.status = 204
                  \/ node[n].response.contentLength = Str("0")))

\* an unsuccessful response with Content-Length 0 and a body that is not
\* JSON has failed its node with the raw text
C4_Witness ==
  \E n \in NodeIds :
    /\ node[n].pc = "failed"
    /\ node[n].response # Undef
    /\ node[n].response.status = 500
    /\ node[n].response.contentLength = Str("0")
    /\ node[n].error.result = Str("oops")

\* the value a resource of a response document is to show under key k
AttributeOf(res, k) ==
  IF Has(Get(res, "attributes"), k) THEN Get(Get(res, "attributes"), k)
  ELSE IF Has(res, k) THEN Get(res, k)
  ELSE Null

LeafNames(field) ==
  {field.selectionSet.selections[i].name :
     i \in {j \in 1..Len(field.selectionSet.selections) :
              /\ field.selectionSet.selections[j].kind = "Field"
              /\ ~field.selectionSet.selections[j].selectionSet.set}}

HoldsResource(v, res, keys) ==
  IsObj(v) /\ \A k \in keys : Get(v, k) = AttributeOf(res, k)

\* v is the data of the document node n was answered with, as selected
HoldsOwnData(v, n) ==
  LET data == Get(node[n].response.body.value, "data")
      keys == LeafNames(NodeField(operation, n))
  IN IF IsArr(data)
       THEN /\ IsArr(v)
            /\ Len(v.a) = Len(data.a)
            /\ \A i \in 1..Len(data.a) : HoldsResource(v.a[i], data.a[i], keys)
       ELSE HoldsResource(v, data, keys)

NotFound(n) == node[n].response # Undef /\ node[n].response.status = 404

KeyOf(n) == resultKeyNameFromField(NodeField(operation, n))

(* C5: a fetch node that receives 404 resolves to null and is no failure;  *)
(* when the operation completes, its position in the result holds null,    *)
(* every sibling fetch node answered with a document holds its own data,   *)
(* and the observer, if still subscribed, gets next and complete and no    *)
(* error.                                                                  *)
C5_NotFoundIsPartialSuccess ==
  \A n \in {1, 2} :
    HasNode(operation, n) /\ NotFound(n) =>
      /\ node[n].pc = "resolved"
      /\ node[n].result = Null
      /\ node[n].error = NoError
      /\ (\A m \in PresentNodes(operation) : node[m].pc \in {"resolved", "skipped"})
           => promise.state = "fulfilled"
      /\ promise.state = "fulfilled" =>
           /\ Get(promise.value, KeyOf(n)) = Null
           /\ \A m \in {1, 2} \ {n} :
                (/\ HasNode(operation, m)
                 /\ node[m].response # Undef
                 /\ node[m].response.status = 200)
                  => HoldsOwnData(Get(promise.value, KeyOf(m)), m)
           /\ subscription.state = "open" =>
                /\ Len(observer) = 2
                /\ observer[1].cb = "next"
                /\ Get(observer[1].value, "data") = promise.value
                /\ observer[2].cb = "complete"

\* the first field got 404, its sibling a document, and the operation
\* completed with the sibling's data
C5_Witness ==
  /\ promise.state = "fulfilled"
  /\ subscription.state = "open"
  /\ Len(observer) = 2
  /\ HasNode(operation, 2)
  /\ NotFound(1)
  /\ node[2].response # Undef
  /\ node[2].response.status = 200
  /\ IsArr(Get(promise.value, KeyOf(2)))
  /\ Get(promise.value, KeyOf(1)) = Null

RECURSIVE AllSelectedPresent(_, _, _)
AllSelectedPresent(v, selectionSet, fragmentMap) ==
  IF ~selectionSet.set THEN TRUE
  ELSE IF IsArr(v)
    THEN \A i \in 1..Len(v.a) : AllSelectedPresent(v.a[i], selectionSet, fragmentMap)
  ELSE IF IsObj(v)
    THEN \A k \in 1..Len(selectionSet.selections) :
           LET sel == selectionSet.selections[k]
           IN CASE sel.kind = "InlineFragment" ->
                     AllSelectedPresent(v, sel.selectionSet, fragmentMap)
                [] sel.kind = "FragmentSpread" ->
                     AllSelectedPresent(v, fragmentMap[sel.name], fragmentMap)
                [] OTHER ->
                     \/ sel.name = "__typename"
                     \/ /\ Has(v, sel.name)
                        /\ AllSelectedPresent(Get(v, sel.name), sel.selectionSet,
                                              fragmentMap)
  ELSE TRUE

RECURSIVE Preserved(_, _)
Preserved(before, after) ==
  IF IsObj(before)
    THEN /\ IsObj(after)
         /\ \A k \in DOMAIN before.f : Has(after, k) /\ Preserved(before.f[k], after.f[k])
  ELSE IF IsArr(before)
    THEN /\ IsArr(after)
         /\ Len(after.a) = Len(before.a)
         /\ \A i \in 1..Len(before.a) : Preserved(before.a[i], after.a[i])
  ELSE after = before

(* C6: after the null-patch pass of a fetch node, every field selected     *)
(* under that node, through objects, array elements and fragments, is      *)
(* present in its result (null when the server omitted it), __typename     *)
(* excepted, and no value that was present has changed.                    *)
C6_NullPatchComplete ==
  \A n \in NodeIds :
    (HasNode(operation, n) /\ node[n].pc = "resolved" /\ node[n].response # Undef) =>
      /\ AllSelectedPresent(node[n].result, NodeField(operation, n).selectionSet,
                            operation.fragmentMap)
      /\ Preserved(node[n].shaped, node[n].result)

(* C7: the request of a fetch node nested under a fetch node is issued     *)
(* only after the ancestor's call has returned and its result is known:    *)
(* whenever a request of node 3 exists, node 1 made its request earlier,   *)
(* its response is recorded and its resolver has returned an object.       *)
C7_DescendantAfterAncestor ==
  \A i \in RequestsOf(3) :
    /\ \E j \in RequestsOf(1) : j < i
    /\ node[1].pc = "resolved"
    /\ node[1].response # Undef
    /\ \E k \in 1..Len(responses) : responses[k] = node[1].response
    /\ IsObj(node[1].result)

\* the nested field has made its request
C7_Witness ==
  \E i \in RequestsOf(3) :
    /\ requests[i].url = "/api/tags"
    /\ node[1].response.status = 200

ExportsOf(field) ==
  {sel \in {field.selectionSet.selections[i] :
              i \in 1..Len(field.selectionSet.selections)} :
     sel.kind = "Field" /\ sel.directives.export # Undef}

(* C8: for every child field of a resolved node flagged @export(as: X),    *)
(* the fetch node below builds its path with exportVariables.X equal to    *)
(* the child's resolved value.                                             *)
C8_ExportVisibleBelow ==
  (HasNode(operation, 3) /\ Started(3)) =>
    \A e \in ExportsOf(NodeField(operation, 1)) :
      /\ Get(node[3].exportVariables, e.directives.export.as)
           = Get(node[1].result, e.name)
      /\ NodeField(operation, 3).directives.jsonapi.path = Path(PathExport) =>
           \A i \in RequestsOf(3) :
             requests[i].url
               = "/api/posts/" \o StringOf(Get(node[1].result, e.name)) \o "/tags"

\* the verbs the spec allows an operation kind
VerbAllowed(method, operationType) ==
  CASE operationType = "query" -> method \in {"GET", "get"}
    [] operationType = "mutation" ->
         method \in {"GET", "get", "POST", "PUT", "PATCH", "DELETE"}
    [] OTHER -> FALSE

\* node n is a fetch node whose directives and path are in order
WellFormed(n) ==
  LET d == NodeField(operation, n).directives
  IN /\ d.jsonapi # Undef
     /\ d.type = Undef
     /\ (d.jsonapi.pathBuilder
         \/ (d.jsonapi.path.given /\ ~PathIncludesColon(d.jsonapi.path.bits)))

MethodOf(n) ==
  LET m == NodeField(operation, n).directives.jsonapi.method
  IN IF m = "" THEN "GET" ELSE m

(* C9: verb validation accepts a (verb, operation kind) pair exactly when  *)
(* the spec allows it: GET only for a query, GET, POST, PUT, PATCH and     *)
(* DELETE for a mutation, nothing for a subscription; a rejected pair      *)
(* fails the node and no transport call is made for it.                    *)
C9_VerbValidation ==
  \A n \in NodeIds :
    (HasNode(operation, n) /\ Started(n) /\ WellFormed(n)) =>
      IF VerbAllowed(MethodOf(n), operation.operationType)
        THEN RequestsOf(n) # {}
        ELSE node[n].pc = "failed" /\ RequestsOf(n) = {}

\* an error raised by the checks of the resolver, not by a response or by
\* the transport
IsConfigError(err) == err # NoError /\ err.name = "Error" /\ err.response = Undef

(* C10 as stated: in every execution of an operation that ends with a      *)
(* configuration error, no transport call has been made.                   *)
C10_NoCallInFailedOperation ==
  (promise.state = "rejected" /\ IsConfigError(promise.value)) => requests = <<>>

(* C10, amended: a node that raises a configuration error has made no      *)
(* transport call of its own; the error is raised before that node's       *)
(* request.                                                                *)
C10_FailingNodeMakesNoCall ==
  \A n \in NodeIds :
    (node[n].pc = "failed" /\ IsConfigError(node[n].error)) => RequestsOf(n) = {}

\* the second field failed on its configuration after the first field had
\* made its request
C10_Witness ==
  /\ node[2].pc = "failed"
  /\ IsConfigError(node[2].error)
  /\ RequestsOf(2) = {}
  /\ RequestsOf(1) # {}
  /\ promise.state = "rejected"

----------------------------------------------------------------------------
(* Properties of the path templates *)

\* the requests made for a path template: node, template and props
TemplateRequests ==
  {i \in DOMAIN requests :
     LET jsonapi == NodeField(operation, requests[i].node).directives.jsonapi
     IN jsonapi.path.given /\ ~jsonapi.pathBuilder}

TemplateOf(i) == NodeField(operation, requests[i].node).directives.jsonapi.path.bits

PropsOf(i) ==
  Obj([args |-> NodeField(operation, requests[i].node).args,
       exportVariables |-> node[requests[i].node].exportVariables])

\* some key along keyPath is missing below v
RECURSIVE Missing(_, _)
Missing(v, keyPath) ==
  /\ keyPath # <<>>
  /\ \/ ~Has(v, Head(keyPath))
     \/ Missing(Get(v, Head(keyPath)), Tail(keyPath))

RECURSIVE ValueAt(_, _)
ValueAt(v, keyPath) ==
  IF keyPath = <<>> THEN v ELSE ValueAt(Get(v, Head(keyPath)), Tail(keyPath))

\* bit i of the template lies after the bit that holds the first '?'
AfterQuery(path, i) == \E j \in 1..(i - 1) : path[j].q >= 0

Placeholders(path) == {i \in DOMAIN path : path[i].ph /\ path[i].text # "{}"}

\* the texts bit i of the template may be rendered as, by the rule enc
\* gives for a placeholder that resolves and the text `missing` for one
\* that does not
Pieces(path, i, props, enc(_, _, _), missing) ==
  IF ~path[i].ph THEN {path[i].text}
  ELSE IF path[i].text = "{}" THEN {""}
  ELSE IF Missing(props, path[i].keyPath) THEN missing
  ELSE enc(path, i, ValueAt(props, path[i].keyPath))

RECURSIVE Renderings(_, _, _, _, _)
Renderings(path, n, props, enc(_, _, _), missing) ==
  IF n = 0 THEN {""}
  ELSE {pre \o piece : pre \in Renderings(path, n - 1, props, enc, missing),
                       piece \in Pieces(path, n, props, enc, missing)}

\* query-string encoding for an object after the '?', String(value) otherwise
EncodedAfterQuery(path, i, value) ==
  IF AfterQuery(path, i) /\ value.t \in {"obj", "arr"}
    THEN {qsStringify(value)} ELSE {StringOf(value)}

\* either rendering of a value
EncodedEitherWay(path, i, value) ==
  {StringOf(value)} \cup
    (IF value.t \in {"obj", "arr"} THEN {qsStringify(value)} ELSE {})

(* C11: in the path requested for a template, a placeholder after the '?'  *)
(* whose value is an object is rendered with query-string encoding, and a  *)
(* placeholder before the '?', or in a template without '?', is rendered   *)
(* as String(value), never query-string encoded.                           *)
C11_EncodingOnlyAfterQuery ==
  \A i \in TemplateRequests :
    requests[i].url \in
      {EndpointUri \o r :
         r \in Renderings(TemplateOf(i), Len(TemplateOf(i)), PropsOf(i),
                          EncodedAfterQuery, {"", "undefined"})}

(* C12: a placeholder that cannot be resolved, because its key or a key    *)
(* along its dotted path is missing, is rendered as the empty string, and  *)
(* the request is issued.                                                  *)
C12_MissingGivesEmptyString ==
  \A n \in NodeIds :
    LET field == NodeField(operation, n)
        jsonapi == field.directives.jsonapi
        path == jsonapi.path.bits
        props == Obj([args |-> field.args, exportVariables |-> node[n].exportVariables])
    IN (/\ HasNode(operation, n) /\ Started(n) /\ WellFormed(n)
        /\ ~jsonapi.pathBuilder
        /\ validateRequestMethodForOperationType(MethodOf(n), operation.operationType)
             = NoError
        /\ MethodOf(n) \in {"GET", "DELETE"}
        /\ \E b \in Placeholders(path) : Missing(props, path[b].keyPath))
       => \E i \in RequestsOf(n) :
            requests[i].url \in
              {EndpointUri \o r :
                 r \in Renderings(path, Len(path), props, EncodedEitherWay, {""})}

----------------------------------------------------------------------------
(* Properties of the observable *)

FailedWith(n, status) ==
  /\ node[n].pc = "failed"
  /\ node[n].response # Undef
  /\ node[n].response.status = status

SucceededWithDocument(n) ==
  /\ node[n].pc = "resolved"
  /\ node[n].response # Undef
  /\ node[n].response.status = 200

\* of two sibling fetch nodes a failed with status 500 and b succeeded, and
\* the consumer is still subscribed
SiblingFailed(a, b) ==
  /\ {a, b} = {1, 2}
  /\ HasNode(operation, 1) /\ HasNode(operation, 2)
  /\ FailedWith(a, 500)
  /\ SucceededWithDocument(b)
  /\ node[3].pc # "failed"
  /\ subscription.state = "open"

(* C13 as stated: when one of two sibling fetch nodes fails with status    *)
(* 500 and the other succeeds, the caller receives a result tree holding   *)
(* the successful node's data, together with the failing node's error.     *)
C13_PartialResultWithError ==
  \A a, b \in {1, 2} :
    SiblingFailed(a, b) =>
      /\ \E i \in DOMAIN observer :
           /\ observer[i].cb = "next"
           /\ HoldsOwnData(Get(Get(observer[i].value, "data"), KeyOf(b)), b)
      /\ \E j \in DOMAIN observer :
           observer[j].cb = "error" /\ observer[j].value = node[a].error

(* C13 amended: in that case the caller receives the failing node's error  *)
(* through the error callback, preceded by one next that carries the       *)
(* parsed body of the 500 response when that body has an `errors` member,  *)
(* and nothing else: the successful node's data is not delivered.          *)
C13_ErrorWithoutPartialResult ==
  \A a, b \in {1, 2} :
    SiblingFailed(a, b) =>
      LET err == node[a].error
      IN /\ promise = [state |-> "rejected", value |-> err]
         /\ observer =
              (IF Truthy(err.result) /\ Truthy(Get(err.result, "errors"))
                 THEN <<[cb |-> "next", value |-> err.result]>> ELSE <<>>)
                \o <<[cb |-> "error", value |-> err]>>

\* the second field succeeded, then the first failed with an errors document
C13_Witness ==
  /\ SiblingFailed(1, 2)
  /\ node[2].result # Null
  /\ Len(observer) = 2
  /\ observer[1] = [cb |-> "next", value |-> DocErrors]

\* node n's fetch rejects in this step
FetchRejected(n) ==
  /\ node[n].pc = "inflight"
  /\ node'[n].pc = "failed"
  /\ node'[n].response = Undef

\* some fetch of the operation has been rejected with an AbortError
Aborted ==
  \E n \in NodeIds :
    /\ node[n].pc = "failed"
    /\ node[n].response = Undef
    /\ node[n].error.name = "AbortError"

(* C14 as stated: a transport rejection named AbortError leads to no       *)
(* observer callback, then or afterwards; every other transport rejection  *)
(* is passed to the observer's error callback.                             *)
C14_AbortSilentOthersSurface ==
  [][/\ Aborted => observer' = observer
     /\ \A n \in NodeIds :
          FetchRejected(n) =>
            IF node'[n].error.name = "AbortError" THEN observer' = observer
            ELSE subscription.state = "open" =>
                   observer' = Append(observer, [cb |-> "error",
                                                 value |-> node'[n].error])]_vars

(* C14 amended: a transport rejection named AbortError leads to no         *)
(* observer callback, then or afterwards; any other transport rejection is *)
(* passed to the observer's error callback when it is the first failure of *)
(* the operation (a rejection that follows the failure of another node of  *)
(* the operation reaches no callback).                                     *)
C14_AbortSilentFirstFailureSurfaces ==
  [][/\ Aborted => observer' = observer
     /\ \A n \in NodeIds :
          FetchRejected(n) =>
            IF node'[n].error.name = "AbortError" THEN observer' = observer
            ELSE IF promise.state = "pending" /\ subscription.state = "open"
              THEN observer' = Append(observer, [cb |-> "error",
                                                 value |-> node'[n].error])
            ELSE observer' = observer]_vars

\* the first field's fetch was aborted, the second field was answered
\* later, and no callback was called
C14_Witness ==
  /\ node[1].pc = "failed"
  /\ node[1].error.name = "AbortError"
  /\ promise = [state |-> "rejected", value |-> node[1].error]
  /\ HasNode(operation, 2)
  /\ node[2].pc = "resolved"
  /\ subscription.state = "open"
  /\ observer = <<>>

----------------------------------------------------------------------------
(* Properties of the transformer's result *)

\* the keys of v apart from the type tag
PlainKeys(v) == (DOMAIN Own(v)) \ {"__typename"}

\* x is the resource y of the response with its envelope kept: same id and
\* type, the same attributes, meta and links, the same relationship names
RECURSIVE KeepsEnvelope(_, _)
KeepsEnvelope(x, y) ==
  IF IsArr(y)
    THEN /\ IsArr(x)
         /\ Len(x.a) = Len(y.a)
         /\ \A i \in 1..Len(y.a) : KeepsEnvelope(x.a[i], y.a[i])
    ELSE /\ IsObj(x)
         /\ Get(x, "id") = Get(y, "id")
         /\ Get(x, "type") = Get(y, "type")
         /\ \A k \in {"attributes", "meta", "links"} :
              /\ Has(x, k)
              /\ IF Has(y, k)
                   THEN /\ PlainKeys(Get(x, k)) = PlainKeys(Get(y, k))
                        /\ \A a \in PlainKeys(Get(y, k)) :
                             Get(Get(x, k), a) = Get(Get(y, k), a)
                   ELSE Get(x, k) = Undef
         /\ PlainKeys(Get(x, "relationships")) = PlainKeys(Get(y, "relationships"))

(* C16: with includeJsonapi the result is an object with the keys graphql  *)
(* and jsonapi; jsonapi holds the response with its envelope kept, and     *)
(* graphql equals the result the transformer gives the same document       *)
(* without includeJsonapi.  A document the transformer rejects is rejected *)
(* either way.                                                             *)
C16_GraphqlEqualsFlattened ==
  /\ (step = "done" /\ includeJsonapi) =>
       /\ IsObj(body)
       /\ DOMAIN body.f = {"graphql", "jsonapi"}
       /\ Get(body, "graphql") = jsonapiResponseTransformer(doc, FALSE)
       /\ KeepsEnvelope(Get(Get(body, "jsonapi"), "data"), Get(doc, "data"))
  /\ (step = "rejected" /\ includeJsonapi) =>
       jsonapiResponseTransformer(doc, FALSE) = Throw

\* a document with a to-many linkage into `included`, transformed with
\* includeJsonapi
C16_Witness ==
  /\ step = "done"
  /\ includeJsonapi
  /\ IsArr(Get(Get(body, "graphql"), "r1"))
  /\ Len(Get(Get(body, "graphql"), "r1").a) = 2
  /\ Has(Get(Get(body, "jsonapi"), "data"), "relationships")
  /\ Has(doc, "included")

\* the resources a linkage of the primary resource res is looked up in
ResourcesFor(res) == <<res>> \o IncludedOf(doc)

\* the primary resources of the document and their flattened values, paired
PrimaryPairs ==
  LET data == Get(doc, "data")
  IN IF IsArr(data)
       THEN {<<Flattened.a[i], data.a[i]>> : i \in 1..Len(data.a)}
       ELSE {<<Flattened, data>>}

\* the flattened values found below v, each with the resource of the
\* document it was made of and the resources its identifiers are looked up
\* in: v itself made of res, and what lies under a relationship name whose
\* identifier resolves among resources
RECURSIVE ResourcePairs(_, _, _)
ResourcePairs(v, res, resources) ==
  {<<v, res, resources>>} \cup
  UNION {
    LET data == Get(RelsOf(res)[k], "data")
        got == Get(v, k)
        below(g, x) ==
          IF /\ IsObj(g) /\ IsObj(x) /\ findResource(x, resources) # 0
             /\ Get(g, "id") = Get(x, "id") /\ Get(g, "type") = Get(x, "type")
            THEN ResourcePairs(g, resources[findResource(x, resources)], resources)
            ELSE {}
    IN IF IsArr(data) /\ IsArr(got) /\ Len(got.a) = Len(data.a)
         THEN UNION {below(got.a[i], data.a[i]) : i \in 1..Len(data.a)}
       ELSE IF IsObj(data) THEN below(got, data)
       ELSE {}
    : k \in DOMAIN RelsOf(res) }

\* every flattened resource of the result, with the resource it was made of
AllPairs ==
  UNION {ResourcePairs(pr[1], pr[2], ResourcesFor(pr[2])) : pr \in PrimaryPairs}

\* v is the flattened value of a resource that was denormalized: what lies
\* under its relationship names are no longer envelopes
EmptyLinkageKept(v, res) ==
  \A k \in DOMAIN RelsOf(res) :
    LET related == RelsOf(res)[k]
    IN /\ Get(related, "data") = Arr(<<>>) => (Has(v, k) /\ Get(v, k) = Arr(<<>>))
       /\ (IsObj(related) /\ ~Has(related, "data")) => (Has(v, k) /\ Get(v, k) = Null)

(* C17: in the result, a relationship whose linkage is the empty array     *)
(* holds an empty array under its name, and a relationship without a data  *)
(* key holds null, for the primary resource and for every resource below   *)
(* it.                                                                     *)
C17_EmptyLinkageKeptApart ==
  step = "done" => \A pr \in AllPairs : EmptyLinkageKept(pr[1], pr[2])

\* x is an identifier that matches none of resources
Unresolved(x, resources) == IsObj(x) /\ findResource(x, resources) = 0

\* under each relationship name of res, v holds the identifiers that match
\* none of resources as they are, at their position
StubsKept(v, res, resources) ==
  \A k \in DOMAIN RelsOf(res) :
    LET data == Get(RelsOf(res)[k], "data")
        got == Get(v, k)
    IN IF IsArr(data)
         THEN (\E i \in 1..Len(data.a) : Unresolved(data.a[i], resources)) =>
                /\ IsArr(got)
                /\ Len(got.a) = Len(data.a)
                /\ \A i \in 1..Len(data.a) :
                     Unresolved(data.a[i], resources) => got.a[i] = data.a[i]
         ELSE Unresolved(data, resources) => got = data

(* C18: an identifier of a relationship that matches no resource of        *)
(* `included` and is not the primary resource is found in the result as    *)
(* the {id, type} stub, at its position under the relationship's name, for *)
(* the primary resource and for every resource below it, and a document    *)
(* with primary data is never rejected.                                    *)
C18_UnresolvedStubKept ==
  /\ step = "done" =>
       \A pr \in AllPairs :
         StubsKept(pr[1], pr[2], pr[3])
  /\ Truthy(Get(doc, "data")) => step # "rejected"

EnvelopeKeys == {"links", "meta", "attributes", "relationships"}

(* C19: the flattened value of a resource, at every nesting level, has     *)
(* none of the envelope keys links, meta, attributes and relationships at  *)
(* its top level, and no key besides id, type, the type tag, the           *)
(* resource's attribute names and its relationship names.                  *)
C19_EnvelopeKeysDropped ==
  step = "done" =>
    \A pr \in AllPairs :
      /\ (DOMAIN Own(pr[1])) \cap EnvelopeKeys = {}
      /\ (DOMAIN Own(pr[1])) \subseteq
           ({"id", "type", "__typename"}
              \cup DOMAIN Own(Get(pr[2], "attributes"))
              \cup DOMAIN RelsOf(pr[2]))

----------------------------------------------------------------------------
(* Properties of the type tags *)

RelationshipNames == {"r1", "r2"}

\* node n resolved to what the transformer made of a document
Transformed(n) ==
  /\ node[n].pc = "resolved"
  /\ node[n].reads = 1
  /\ node[n].shaped \notin {Null, Undef}

\* the document node n was answered with
DocumentOf(n) == node[n].response.body.value

\* the flattened primary data in the result of node n
GraphqlOf(n) ==
  IF NodeField(operation, n).directives.jsonapi.includeJsonapi
    THEN Get(node[n].result, "graphql")
    ELSE node[n].result

\* the resources of the document node n was answered with that are found
\* in the node's result, each with its value there; the field-name
\* normalizers of the model rename no relationship name
NodePairs(n) ==
  LET data == Get(DocumentOf(n), "data")
      result == GraphqlOf(n)
      primary == IF IsArr(data)
                   THEN {<<result.a[i], data.a[i]>> : i \in 1..Len(data.a)}
                   ELSE {<<result, data>>}
  IN UNION {ResourcePairs(pr[1], pr[2], <<pr[2]>> \o IncludedOf(DocumentOf(n))) :
              pr \in primary}

\* v carries the type tag of the resource res
Tagged(v, res) ==
  /\ Has(v, "__typename")
  /\ Get(res, "type").t = "str"
  /\ Get(v, "__typename") = Str(typeNameNormalizer(Get(res, "type").s))

\* v, and every object under a relationship name below it, carries the tag
\* of its own type
RECURSIVE EveryRelatedTagged(_)
EveryRelatedTagged(v) ==
  IF IsArr(v) THEN \A i \in 1..Len(v.a) : EveryRelatedTagged(v.a[i])
  ELSE IF IsObj(v)
    THEN /\ Tagged(v, v)
         /\ \A k \in RelationshipNames \cap DOMAIN v.f : EveryRelatedTagged(v.f[k])
  ELSE TRUE

(* C20 as stated: in the result of a fetch node, the primary resource or   *)
(* each element of a primary array, and every object placed under a        *)
(* relationship name at any depth, carries a __typename equal to           *)
(* typeNameNormalizer applied to its type.                                 *)
C20_EveryRelatedObjectTagged ==
  \A n \in NodeIds : Transformed(n) => EveryRelatedTagged(GraphqlOf(n))

(* C20: in the result of a fetch node, every resource of the document's    *)
(* data and included, the primary resource or each element of a primary    *)
(* array and every resource an identifier resolved to at any depth,        *)
(* carries a __typename equal to typeNameNormalizer applied to its type,   *)
(* and the field-name normalizer leaves that key under its name.           *)
C20_EveryResourceTagged ==
  \A n \in NodeIds :
    Transformed(n) =>
      \A pr \in NodePairs(n) :
        /\ Tagged(pr[1], pr[2])
        /\ operation.fieldNameNormalizer # Null =>
             ~Has(pr[1], Convert(operation.fieldNameNormalizer.f, "__typename"))

\* a link with both normalizers resolved a post whose author was included
\* and whose second relationship holds an identifier that was not
C20_Witness ==
  /\ operation.fieldNameNormalizer # Null
  /\ normalizer = "prefix"
  /\ Transformed(1)
  /\ DocumentOf(1) = DocStub
  /\ Has(node[1].result, "relationshipsDenormalizing")
  /\ Get(Get(node[1].result, "r1"), "__typename") = Str("Myauthors")
  /\ <<Get(node[1].result, "r1"), ResourceA(Undef), <<Get(DocStub, "data"), ResourceA(Undef)>>>>
       \in NodePairs(1)
  /\ ~Has(Get(node[1].result, "r2").a[2], "__typename")

----------------------------------------------------------------------------
(* Properties of aliases *)

\* the fields of a selection set that carry no directive and an alias
AliasedFields(selectionSet) ==
  {selectionSet.selections[i] :
     i \in {j \in 1..Len(selectionSet.selections) :
              /\ selectionSet.selections[j].kind = "Field"
              /\ ~IsTagged(selectionSet.selections[j])
              /\ selectionSet.selections[j].directives.type = Undef
              /\ selectionSet.selections[j].alias # ""}}

\* placed holds, under each alias of selectionSet, what parent holds under
\* the field's own name; a field with selections is compared field by field
RECURSIVE AliasesReadFieldName(_, _, _)
AliasesReadFieldName(placed, parent, selectionSet) ==
  \A sel \in AliasedFields(selectionSet) :
    IF sel.selectionSet.set /\ IsObj(Get(parent, sel.name))
      THEN /\ IsObj(Get(placed, sel.alias))
           /\ AliasesReadFieldName(Get(placed, sel.alias), Get(parent, sel.name),
                                   sel.selectionSet)
      ELSE Get(placed, sel.alias) = Get(parent, sel.name)

(* C21: a field without directives written with an alias `a: f` appears in *)
(* the result under a with the value its parent object holds under f, for  *)
(* every parent object; the null patch puts a missing field under f.       *)
C21_AliasHoldsFieldValue ==
  (/\ promise.state = "fulfilled"
   /\ IsObj(node[1].result)
   /\ ~NodeField(operation, 1).directives.jsonapi.includeJsonapi) =>
    /\ AliasesReadFieldName(Get(promise.value, KeyOf(1)), node[1].result,
                            NodeField(operation, 1).selectionSet)
    /\ \A sel \in AliasedFields(NodeField(operation, 1).selectionSet) :
         Has(node[1].result, sel.name)

----------------------------------------------------------------------------
(* Properties of the request body *)

(* C22: a request whose verb is GET or DELETE, in any letter case, is made *)
(* with an undefined body whatever the field's `input` argument; a request *)
(* with another verb carries the serialized `input` argument with its      *)
(* field names denormalized.                                               *)
C22_GetDeleteCarryNoBody ==
  \A i \in 1..Len(requests) :
    IF toUpperCase(requests[i].method) \in {"GET", "DELETE"}
      THEN requests[i].body = Undef
      ELSE requests[i].body =
             JSONStringify(convertObjectKeys(
                             Get(NodeField(operation, requests[i].node).args, "input"),
                             operation.fieldNameDenormalizer))

----------------------------------------------------------------------------
(* Properties of the recorded responses *)

\* the fetch nodes whose transport call has returned
Returned == {n \in NodeIds : node[n].response # Undef}

\* this step records the response of one fetch node, once, at the end
RecordsOne ==
  \E n \in NodeIds \ Returned :
    /\ node'[n].response # Undef
    /\ responses' = Append(responses, node'[n].response)
    /\ \A m \in NodeIds \ {n} : node'[m].response = node[m].response

(* C23: every fetch node makes at most one transport call and its          *)
(* response is recorded once, in the order the calls returned; when the    *)
(* operation succeeds, context.restResponses becomes the restResponses the *)
(* context held before followed by the recorded responses, one per         *)
(* executed fetch node, and the context is not written otherwise.          *)
C23_OneResponsePerCall ==
  /\ [](\A n \in NodeIds :
          /\ Cardinality(RequestsOf(n)) <= 1
          /\ n \in Returned => Cardinality(RequestsOf(n)) = 1)
  /\ [](Len(responses) = Cardinality(Returned))
  /\ [](promise.state = "fulfilled" => Len(responses) = Len(requests))
  /\ [][responses' = responses \/ RecordsOne]_vars
  /\ [][IF promise.state # "fulfilled" /\ promise'.state = "fulfilled"
          THEN context'.restResponses = context.restResponses \o responses'
          ELSE context' = context]_vars

\* an operation of a post, its nested tags and a sibling succeeded in a
\* context that held an earlier response; the sibling's call returned first
C23_Witness ==
  /\ promise.state = "fulfilled"
  /\ Returned = {1, 2, 3}
  /\ Len(context.restResponses) = 4
  /\ context.restResponses[1] = Response(200, Null, TextBody("earlier"))
  /\ context.restResponses[2] = node[2].response
  /\ context.restResponses[3] = node[1].response
  /\ context.restResponses[4] = node[3].response
  /\ node[2].response # node[1].response

----------------------------------------------------------------------------
(* Properties of self-referencing resources *)

\* the identity of a resource or identifier
IdentityOf(x) == <<Get(x, "id"), Get(x, "type")>>

\* the values that stand, below the flattened resource v made of res, where
\* a relationship leads back to res or to one of the resources on the path
\* down to it, each with the resource it leads back to
RECURSIVE SelfBranches(_, _, _, _)
SelfBranches(v, res, resources, path) ==
  UNION {
    LET data == Get(RelsOf(res)[k], "data")
        got == Get(v, k)
        onPath == path \cup {IdentityOf(res)}
        at(g, x) ==
          IF ~IsObj(x) \/ findResource(x, resources) = 0 THEN {}
          ELSE IF IdentityOf(x) \in onPath
            THEN {<<g, resources[findResource(x, resources)]>>}
          ELSE IF IsObj(g) /\ IdentityOf(g) = IdentityOf(x)
            THEN SelfBranches(g, resources[findResource(x, resources)], resources, onPath)
          ELSE {}
    IN IF IsArr(data) /\ IsArr(got) /\ Len(got.a) = Len(data.a)
         THEN UNION {at(got.a[i], data.a[i]) : i \in 1..Len(data.a)}
       ELSE IF IsObj(data) THEN at(got, data)
       ELSE {}
    : k \in DOMAIN RelsOf(res) }

\* v is the resource res with its relationships replaced: under each
\* relationship name stands what the linkage names, a resource object or an
\* array of them, or null, and no envelope with identifier linkage
Expanded(v, res) ==
  /\ IsObj(v)
  /\ IdentityOf(v) = IdentityOf(res)
  /\ ~Has(v, "relationships")
  /\ \A k \in DOMAIN RelsOf(res) :
       LET data == Get(RelsOf(res)[k], "data")
           got == Get(v, k)
       IN IF IsArr(data)
            THEN /\ IsArr(got)
                 /\ Len(got.a) = Len(data.a)
                 /\ \A i \in 1..Len(data.a) : IdentityOf(got.a[i]) = IdentityOf(data.a[i])
          ELSE IF IsObj(data) THEN IsObj(got) /\ IdentityOf(got) = IdentityOf(data)
          ELSE got = Null

(* C24: where a relationship leads back to a resource that is being        *)
(* expanded, directly or through other resources, the result holds the     *)
(* expanded resource, its relationships replaced by resource objects, not  *)
(* the resource with its identifier linkage.                               *)
C24_SelfBranchExpanded ==
  step = "done" =>
    \A pr \in PrimaryPairs :
      \A b \in SelfBranches(pr[1], pr[2], ResourcesFor(pr[2]), {}) :
        Expanded(b[1], b[2])

----------------------------------------------------------------------------
(* Properties of the expansion marker *)

\* some object of v, at any depth, holds the expansion marker
RECURSIVE HoldsMarker(_)
HoldsMarker(v) ==
  IF IsArr(v) THEN \E i \in 1..Len(v.a) : HoldsMarker(v.a[i])
  ELSE IF IsObj(v)
    THEN Has(v, Marker) \/ \E k \in DOMAIN v.f : HoldsMarker(v.f[k])
  ELSE FALSE

(* C25: once the transformer is done, no object of the value it resolved   *)
(* to holds the expansion marker __relationships_denormalizing.            *)
C25_MarkerNeverLeaks ==
  step = "done" => ~HoldsMarker(body)

----------------------------------------------------------------------------
(* Properties of the null patch *)

\* the value the null-patch pass of node n was run on
Unpatched(n) ==
  IF operation.fieldNameNormalizer # Null
    THEN convertObjectKeys(node[n].shaped, operation.fieldNameNormalizer.f)
    ELSE node[n].shaped

\* node n resolved with the value its null-patch pass returned
Patched(n) ==
  /\ HasNode(operation, n)
  /\ IsTagged(NodeField(operation, n))
  /\ node[n].pc = "resolved"
  /\ node[n].response # Undef

(* C26: the null-patch pass is idempotent: run again on the result it      *)
(* returned for a fetch node, the pass the resolver runs changes nothing,  *)
(* and neither does the pass over the node's own selection set run twice   *)
(* on the response.                                                        *)
C26_NullPatchIdempotent ==
  \A n \in NodeIds :
    Patched(n) =>
      /\ findRestDirectivesThenInsertNullsForOmittedFields(
           KeyOf(n), node[n].result, operation.fragmentMap, operation.selectionSet)
           = node[n].result
      /\ \E once \in {insertNullsForAnyOmittedFields(
                          Unpatched(n), operation.fragmentMap,
                          NodeField(operation, n).selectionSet)} :
           insertNullsForAnyOmittedFields(once, operation.fragmentMap,
                                          NodeField(operation, n).selectionSet) = once

\* the pass added nulls to the result of a post, one of them for a field
\* that has selections of its own
C26_Witness ==
  /\ Patched(1)
  /\ HasNode(operation, 3)
  /\ IsObj(node[1].shaped)
  /\ node[1].result # node[1].shaped
  /\ ~Has(node[1].shaped, "extra")
  /\ Get(node[1].result, "extra") = Null
  /\ ~Has(node[1].shaped, KeyOf(3))
  /\ Get(node[1].result, NodeField(operation, 3).name) = Null

----------------------------------------------------------------------------
(* Properties of flattening *)

\* the primary resources of the document that have no relationships, each
\* with its flattened value
PlainPairs == {pr \in PrimaryPairs : ~Has(pr[2], "relationships")}

\* the names a resource's attributes must avoid for its flattened value to
\* hold none of the members flattenResource takes out
TakenOut == {"attributes", "relationships", "links"}

(* C27 as stated: for every resource without relationships, whatever its   *)
(* attribute names, flattening the flattened resource again gives the same *)
(* value.                                                                  *)
C27_FlattenIdempotent ==
  step = "done" => \A pr \in PlainPairs : flattenResource(pr[1]) = pr[1]

(* C27: for every resource without relationships none of whose attributes  *)
(* is named attributes, relationships or links, flattening the flattened   *)
(* resource again gives the same value.                                    *)
C27_FlattenIdempotentOnPlainNames ==
  step = "done" =>
    \A pr \in PlainPairs :
      (DOMAIN Own(Get(pr[2], "attributes"))) \cap TakenOut = {} =>
        flattenResource(pr[1]) = pr[1]

\* an array of two resources without relationships was flattened; one of
\* them had links and meta
C27_Witness ==
  /\ step = "done"
  /\ ~includeJsonapi
  /\ Cardinality(PlainPairs) = 2
  /\ \E pr \in PlainPairs :
       /\ Has(pr[2], "links")
       /\ Has(pr[2], "meta")
       /\ Has(pr[1], "name")
       /\ ~Has(pr[1], "links")

----------------------------------------------------------------------------
(* Properties of arrays of primary resources *)

\* the document with its i-th primary resource as the only primary data
AloneIn(d, i) == Obj(Set1(d.f, "data", Get(d, "data").a[i]))

(* C28: when the primary data is an array, the flattened value of each     *)
(* element equals the value the transformer gives that element as the only *)
(* primary resource of a document with the same included list.             *)
C28_ElementAsIfAlone ==
  (step = "done" /\ IsArr(Get(doc, "data"))) =>
    \A i \in 1..Len(Get(doc, "data").a) :
      Flattened.a[i] = jsonapiResponseTransformer(AloneIn(doc, i), FALSE)

----------------------------------------------------------------------------
(* Properties of the null patch's reach *)

\* the names of the fields selected by selectionSet, through its fragments
RECURSIVE SelectedNames(_, _)
SelectedNames(selectionSet, fragmentMap) ==
  UNION {
    LET sel == selectionSet.selections[i]
    IN CASE sel.kind = "InlineFragment" -> SelectedNames(sel.selectionSet, fragmentMap)
         [] sel.kind = "FragmentSpread" -> SelectedNames(fragmentMap[sel.name], fragmentMap)
         [] OTHER -> {sel.name}
    : i \in 1..Len(selectionSet.selections) }

\* the keys the pass added at the top of after, or at the top of its elements
AddedKeys(before, after) ==
  IF IsArr(after) /\ IsArr(before) /\ Len(after.a) = Len(before.a)
    THEN UNION {(DOMAIN Own(after.a[i])) \ (DOMAIN Own(before.a[i])) :
                  i \in 1..Len(after.a)}
    ELSE (DOMAIN Own(after)) \ (DOMAIN Own(before))

(* C29: the null-patch pass run for a fetch node adds to the node's result *)
(* only keys that are selected under that node itself, fragments included. *)
C29_PatchOnlyOwnSelection ==
  \A n \in NodeIds :
    Patched(n) =>
      AddedKeys(Unpatched(n), node[n].result)
        \subseteq SelectedNames(NodeField(operation, n).selectionSet,
                                operation.fragmentMap)

----------------------------------------------------------------------------
(* Properties of documents without primary data *)

\* node n received a successful response with a body, a document whose
\* data member is absent or null, and has read it
AnsweredWithoutData(n) ==
  /\ node[n].response # Undef
  /\ classifyResponse(node[n].response).kind = "transform"
  /\ node[n].response.body.json
  /\ Get(node[n].response.body.value, "data") \in {Undef, Null}
  /\ node[n].pc # "reading"

(* C30: a fetch node that receives a successful response with a non-empty  *)
(* body whose document has no data member, or data: null, resolves to a    *)
(* value and does not fail.                                                *)
C30_NoDataResolves ==
  \A n \in NodeIds :
    AnsweredWithoutData(n) => node[n].pc = "resolved" /\ node[n].error = NoError

====
